---- MODULE Spec2Model ----
(***************************************************************************)
(* Model of the caching-and-coordination layer of eatcost_api:             *)
(*   - core/task_locking/in_redis.py   DistributedLock (lease lock)        *)
(*   - core/scheduled_tasks/*.py       periodic job drivers                *)
(*   - core/caching/in_redis.py        autocomplete index build / query    *)
(*                                                                         *)
(* Every `await` of a store command is one atomic step of the store; the   *)
(* coroutine's code between two awaits runs in the same step as the        *)
(* command that precedes it (single-threaded cooperative scheduling).      *)
(* Time is a discrete clock: Tick ages the lock record and the sleeping    *)
(* heartbeats.  A sleeper may always wake late, never early.               *)
(***************************************************************************)
EXTENDS Integers, FiniteSets, Sequences, TLC

\* ------------------------------------------------------------------ bounds
\* Lease length in clock ticks (the constructor's ttl; the default of 30 s
\* is three ticks of 10 s).
Ttl == 3
\* Largest retry_times a handle is constructed with.
MaxRetry == 2

\* ------------------------------------------------------------- lock: state
Handles == {"A", "B"}

Nil == <<>>

VARIABLES
    lockTok,    \* value stored under the lock key, Nil when the key is absent
    lockTtl,    \* remaining lifetime of the lock key in ticks, 0 when absent
    cfg,        \* constructor arguments of each handle
    pc,         \* where each handle's caller is suspended
    scope,      \* the caller's position in `async with`: out, entering, held (in the
                \* block after a successful acquire), skipped (in the block with an
                \* unacquired handle), exiting
    token,      \* self.token
    acquired,   \* self._acquired
    blocking,   \* the `blocking` argument of the running acquire call
    attempts,   \* the local `attempts` of the running acquire call
    ret,        \* the last finished call and its outcome: <<"acquire", "true">>, ...
    hb,         \* heartbeat task: none, sleep, stopping, done, failed
    hbTimer,    \* ticks left of the heartbeat's sleep
    orphan,     \* a heartbeat task the handle no longer refers to is still alive
    genTries,   \* conditional sets executed since the key last became free (saturating at 2)
    genWins,    \* of these, how many returned true (saturating at 2)
    client,     \* the value of the context variable _redis_client in each context
    run         \* how each periodic driver's last refresh task ended: none, ok, raise, dead

lockVars == <<lockTok, lockTtl, cfg, pc, scope, token, acquired, blocking,
              attempts, ret, hb, hbTimer, orphan, genTries, genWins, client, run>>

\* ------------------------------------------------ autocomplete index: state
Builders == {"b1", "b2"}

\* the live index key and the temporary keys "<index_key>:temp:<second>"
LiveKey == "live"
TempKeys == {"temp0", "temp1"}
IndexKeys == {LiveKey} \cup TempKeys

VARIABLES
    idx,        \* sorted-set members under each key; {} when the key is absent
    idxTtl,     \* the TTL set on each key, 0 when the key has none
    bpc,        \* where each build_word_autocomplete_index call is suspended
    bArg,       \* its arguments: suggestions, ttl
    bKey,       \* its temp_key
    bOld,       \* members and TTL of the live key when the call began
    bRet,       \* what the call returned: len(entries); -1 before it has returned
    qRaw,       \* what the last query's ZRANGEBYLEX returned
    qRes        \* the last query: its arguments, its full_names and its result

indexVars == <<idx, idxTtl, bpc, bArg, bKey, bOld, bRet, qRaw, qRes>>

\* ------------------------------------------------------ object cache: state
Callers == {"c1", "c2"}
\* the listener task of the cache instance runs cache calls of its own
Listener == "L"
Procs == Callers \cup {Listener}
Subscribers == {"s1", "s2"}
Channels == {"chA", "chB"}
CKeys == {"k1", "k2"}
Tags == {"t1", "t2"}

VARIABLES
    kvVal,      \* the bytes stored under each cache key; Nil when the key is absent
    kvTtl,      \* seconds left of each cache key, 0 when absent
    tagMem,     \* members of the set "tag:<t>"; {} when the set is absent
    tagTtl,     \* seconds left of the tag set: 0 absent, -1 no expiry
    cpc,        \* where each caller's cache call is suspended
    carg,       \* the arguments and locals of that call
    cret,       \* the last finished call of each caller and its outcome
    fcalls,     \* factory invocations of the caller's current / last get_or_set
    lastSetex   \* the value, the bytes and the tags of the set() whose SETEX was the last on each key

VARIABLES
    pubsub,     \* self.pubsub has been created
    channels,   \* the channels the pubsub object is subscribed to
    callbacks,  \* the length of self._invalidation_callbacks
    lTask,      \* the task self._listener_task refers to: none, running, done
                \* (ended without an exception), failed (ended with one)
    lLive,      \* how many listener tasks of the instance are running
    lmsg,       \* the message the listener is handling; Nil between messages
    spc,        \* where each subscribe_invalidation call is suspended
    sarg,       \* its arguments: channel, callback given or not
    clpc,       \* where the close() call is suspended
    lCancel     \* cancel() has been called on the running listener task and the
                \* CancelledError has not been delivered yet

storeVars == <<kvVal, kvTtl, tagMem, tagTtl>>

closeVars == <<clpc, lCancel>>

VARIABLES
    cbChan,     \* for each callback of self._invalidation_callbacks, in order, the
                \* channel of the subscribe_invalidation call that appended it
    lchan,      \* the channel of the message the listener is handling
    cbRan       \* after a message has been handled and until the next arrives:
                \* its channel and the callbacks invoked for it, each named
                \* by the channel it was passed with

scopeVars == <<cbChan, lchan, cbRan>>

listenVars == <<pubsub, channels, callbacks, lTask, lLive, lmsg, spc, sarg, closeVars,
                scopeVars>>

cacheVars == <<kvVal, kvTtl, tagMem, tagTtl, cpc, carg, cret, fcalls, lastSetex,
               listenVars>>

vars == <<lockVars, indexVars, cacheVars>>

Min(a, b) == IF a < b THEN a ELSE b

NoRet == <<"none", "none">>

\* how a store command can end: executed and answered, or failed without
\* being executed (the store is unreachable): the client raises
Outcomes == {"ok", "fail"}
Applied(out) == out = "ok"

\* retry_times: None (bounded = FALSE) or an attempt budget
RetryOpts == {[bounded |-> FALSE, n |-> 0], [bounded |-> TRUE, n |-> MaxRetry]}

Configs == [auto : BOOLEAN, skip : BOOLEAN, retry : RetryOpts]

\* ttl / 3, the heartbeat's sleep
HbPeriod == Ttl \div 3

\* uuid.uuid4(): a value no live reference holds. A handle's earlier token can
\* survive only in the store, so two names per handle are enough.
FreshToken(h) == IF lockTok = <<h, 0>> THEN <<h, 1>> ELSE <<h, 0>>

\* ------------------------------------------------------- store connection
\* _redis_client is a ContextVar: a value set in one context is seen by the
\* code of that context and by the tasks created from it afterwards, which
\* start with a copy. "main" is the context that calls init_redis and
\* close_redis (the lifespan) and in which handle A is used; "task" is the
\* context of a task created from it, in which handle B is used. A heartbeat
\* task is created inside a successful acquire and so always holds a client.
Contexts == {"main", "task"}

Ctx(h) == IF h = "A" THEN "main" ELSE "task"

\* the `redis` property: the client of the caller's context, or RuntimeError
RedisReady(h) == client[Ctx(h)] = "open"

\* --------------------------------------------------------- store commands
SetNxAlways == TRUE

\* SET key token NX EX ttl: TRUE iff the key was absent
SetNxOk == lockTok = Nil

ScriptAnyToken(tok) == lockTok # Nil

\* the compare of both scripts: redis.call("get", KEYS[1]) == ARGV[1]
ScriptMatch(tok) == lockTok # Nil /\ lockTok = tok

\* the key is removed (DEL or expiry): a new lease generation begins
KeyGone ==
    /\ lockTok' = Nil
    /\ lockTtl' = 0
    /\ genTries' = 0
    /\ genWins' = 0

KeySame == UNCHANGED <<lockTok, lockTtl, genTries, genWins>>

\* ----------------------------------------------------- return to the caller
\* Where a finished call leaves the caller: acquire returns into __aenter__,
\* release into __aexit__, otherwise to the code that made the call.
AfterAcquire(h, ok) ==
    /\ IF scope[h] = "entering"
       THEN IF ok \/ cfg[h].skip
            THEN \* __aenter__ returns self
                 /\ pc' = [pc EXCEPT ![h] = "body"]
                 /\ scope' = [scope EXCEPT ![h] = IF ok THEN "held" ELSE "skipped"]
                 /\ ret' = [ret EXCEPT ![h] = <<"enter", IF ok THEN "true" ELSE "false">>]
            ELSE \* RuntimeError("Failed to acquire lock")
                 /\ pc' = [pc EXCEPT ![h] = "idle"]
                 /\ scope' = [scope EXCEPT ![h] = "out"]
                 /\ ret' = [ret EXCEPT ![h] = <<"enter", "raise">>]
       ELSE /\ pc' = [pc EXCEPT ![h] = "idle"]
            /\ scope' = scope
            /\ ret' = [ret EXCEPT ![h] = <<"acquire", IF ok THEN "true" ELSE "false">>]
    \* the call's arguments and locals end with the call
    /\ blocking' = [blocking EXCEPT ![h] = TRUE]
    /\ attempts' = [attempts EXCEPT ![h] = 0]

AfterRelease(h, ok) ==
    /\ pc' = [pc EXCEPT ![h] = "idle"]
    /\ scope' = [scope EXCEPT ![h] = "out"]
    /\ ret' = [ret EXCEPT ![h] = <<"release", IF ok THEN "true" ELSE "false">>]

\* ---------------------------------------------------------------- acquire
\* acquire(blocking): a fresh token, attempts = 0, then the first SET is awaited
CallAcquire(h, b) ==
    /\ pc[h] = "idle"
    /\ scope[h] = "out"
    /\ token' = [token EXCEPT ![h] = FreshToken(h)]
    /\ IF RedisReady(h)
       THEN /\ attempts' = [attempts EXCEPT ![h] = 0]
            /\ blocking' = [blocking EXCEPT ![h] = b]
            /\ pc' = [pc EXCEPT ![h] = "acq_set"]
            /\ ret' = [ret EXCEPT ![h] = NoRet]
       ELSE \* self.redis raises before the command is made
            /\ ret' = [ret EXCEPT ![h] = <<"acquire", "config_error">>]
            /\ UNCHANGED <<attempts, blocking, pc>>
    /\ UNCHANGED <<lockTok, lockTtl, cfg, scope, acquired, hb, hbTimer, orphan, genTries, genWins>>
    /\ UNCHANGED <<client, run, indexVars, cacheVars>>

RetryExhaustedLate(h) == cfg[h].retry.bounded /\ attempts[h] + 1 > cfg[h].retry.n

\* `attempts += 1`, then
\* `if self.retry_times is not None and attempts >= self.retry_times`
RetryExhausted(h) == cfg[h].retry.bounded /\ attempts[h] + 1 >= cfg[h].retry.n

\* one round of the loop: the conditional set and what follows its answer
AcqSet(h) ==
    /\ pc[h] = "acq_set"
    /\ genTries' = Min(genTries + 1, 2)
    /\ IF SetNxOk
       THEN /\ lockTok' = token[h]
            /\ lockTtl' = Ttl
            /\ genWins' = Min(genWins + 1, 2)
            /\ acquired' = [acquired EXCEPT ![h] = TRUE]
            /\ IF cfg[h].auto
               THEN \* _start_heartbeat(): the new task replaces the reference
                    \* to an earlier one, which keeps running if still alive
                    /\ hb' = [hb EXCEPT ![h] = "sleep"]
                    /\ hbTimer' = [hbTimer EXCEPT ![h] = HbPeriod]
                    /\ orphan' = [orphan EXCEPT ![h] = orphan[h] \/ hb[h] = "sleep"]
               ELSE UNCHANGED <<hb, hbTimer, orphan>>
            /\ AfterAcquire(h, TRUE)
       ELSE /\ UNCHANGED <<lockTok, lockTtl, genWins, acquired, hb, hbTimer, orphan>>
            /\ IF ~blocking[h]
               THEN AfterAcquire(h, FALSE)
               ELSE IF RetryExhausted(h)
                    THEN AfterAcquire(h, FALSE)
                    ELSE /\ attempts' = [attempts EXCEPT ![h] = Min(attempts[h] + 1, MaxRetry)]
                         /\ pc' = [pc EXCEPT ![h] = "acq_sleep"]
                         /\ UNCHANGED <<scope, ret, blocking>>
    /\ UNCHANGED <<cfg, token>>
    /\ UNCHANGED <<client, run, indexVars, cacheVars>>

\* asyncio.sleep(retry_delay) is over (0.1 s, below one tick)
AcqWake(h) ==
    /\ pc[h] = "acq_sleep"
    /\ pc' = [pc EXCEPT ![h] = "acq_set"]
    /\ UNCHANGED <<lockTok, lockTtl, cfg, scope, token, acquired, blocking, attempts, ret, hb, hbTimer, orphan, genTries, genWins>>
    /\ UNCHANGED <<client, run, indexVars, cacheVars>>

\* ---------------------------------------------------------------- release
\* the compare-and-delete script with this handle's token, then token = None
\* and _acquired = False
ReleaseScript(h) ==
    /\ IF ScriptMatch(token[h]) THEN KeyGone ELSE KeySame
    /\ AfterRelease(h, ScriptMatch(token[h]))
    /\ token' = [token EXCEPT ![h] = Nil]
    /\ acquired' = [acquired EXCEPT ![h] = FALSE]

ReleaseBeginNoJoin(h, sc) ==
    IF token[h] = Nil
    THEN /\ AfterRelease(h, FALSE)
         /\ UNCHANGED <<lockTok, lockTtl, token, acquired, hb, genTries, genWins>>
    ELSE /\ pc' = [pc EXCEPT ![h] = "rel_eval"]
         /\ scope' = [scope EXCEPT ![h] = sc]
         /\ ret' = [ret EXCEPT ![h] = NoRet]
         /\ UNCHANGED <<lockTok, lockTtl, token, acquired, hb, genTries, genWins>>

\* release() up to its first await; sc is the caller's position while the
\* call runs: "out" for a direct call, "exiting" inside __aexit__
ReleaseBegin(h, sc) ==
    IF hb[h] # "none"
    THEN \* cancel() the heartbeat and await it
         /\ hb' = [hb EXCEPT ![h] = IF hb[h] = "sleep" THEN "stopping" ELSE hb[h]]
         /\ pc' = [pc EXCEPT ![h] = "rel_wait"]
         /\ scope' = [scope EXCEPT ![h] = sc]
         /\ ret' = [ret EXCEPT ![h] = NoRet]
         /\ UNCHANGED <<lockTok, lockTtl, token, acquired, genTries, genWins>>
    ELSE IF token[h] = Nil
         THEN /\ AfterRelease(h, FALSE)
              /\ UNCHANGED <<lockTok, lockTtl, token, acquired, hb, genTries, genWins>>
         ELSE IF RedisReady(h)
              THEN /\ pc' = [pc EXCEPT ![h] = "rel_eval"]
                   /\ scope' = [scope EXCEPT ![h] = sc]
                   /\ ret' = [ret EXCEPT ![h] = NoRet]
                   /\ UNCHANGED <<lockTok, lockTtl, token, acquired, hb, genTries, genWins>>
              ELSE \* self.redis raises: token and _acquired are not reset
                   /\ pc' = [pc EXCEPT ![h] = "idle"]
                   /\ scope' = [scope EXCEPT ![h] = "out"]
                   /\ ret' = [ret EXCEPT ![h] = <<"release", "config_error">>]
                   /\ UNCHANGED <<lockTok, lockTtl, token, acquired, hb, genTries, genWins>>

CallRelease(h) ==
    /\ pc[h] = "idle"
    /\ scope[h] = "out"
    /\ ReleaseBegin(h, "out")
    /\ UNCHANGED <<cfg, blocking, attempts, hbTimer, orphan>>
    /\ UNCHANGED <<client, run, indexVars, cacheVars>>

\* the awaited heartbeat has finished: _heartbeat_task = None, then the script
RelJoin(h) ==
    /\ pc[h] = "rel_wait"
    /\ hb[h] = "done"
    /\ hb' = [hb EXCEPT ![h] = "none"]
    /\ IF token[h] = Nil
       THEN AfterRelease(h, FALSE)
       ELSE IF RedisReady(h)
       THEN /\ pc' = [pc EXCEPT ![h] = "rel_eval"]
            /\ UNCHANGED <<scope, ret>>
       ELSE /\ pc' = [pc EXCEPT ![h] = "idle"]
            /\ scope' = [scope EXCEPT ![h] = "out"]
            /\ ret' = [ret EXCEPT ![h] = <<"release", "config_error">>]
    /\ UNCHANGED <<lockTok, lockTtl, cfg, token, acquired, blocking, attempts, hbTimer, orphan, genTries, genWins>>
    /\ UNCHANGED <<client, run, indexVars, cacheVars>>

\* `await self._heartbeat_task` on a task that ended with an exception
\* raises that exception out of release(): only CancelledError is caught
\* there, and _heartbeat_task keeps referring to the task
RelJoinFailed(h) ==
    /\ pc[h] = "rel_wait"
    /\ hb[h] = "failed"
    /\ pc' = [pc EXCEPT ![h] = "idle"]
    /\ scope' = [scope EXCEPT ![h] = "out"]
    /\ ret' = [ret EXCEPT ![h] = <<"release", "store_error">>]
    /\ UNCHANGED <<lockTok, lockTtl, cfg, token, acquired, blocking, attempts, hb,
                   hbTimer, orphan, genTries, genWins>>
    /\ UNCHANGED <<client, run, indexVars, cacheVars>>

RelEval(h) ==
    /\ pc[h] = "rel_eval"
    /\ ReleaseScript(h)
    /\ UNCHANGED <<cfg, blocking, attempts, hb, hbTimer, orphan>>
    /\ UNCHANGED <<client, run, indexVars, cacheVars>>

\* ----------------------------------------------------------------- extend
\* the compare-and-expire script; `additional_time or self.ttl`
ExtendTime(add) == IF add = 0 THEN Ttl ELSE add

ExtendScript(tok, add) ==
    /\ lockTok' = lockTok
    /\ lockTtl' = IF ScriptMatch(tok) THEN ExtendTime(add) ELSE lockTtl
    /\ UNCHANGED <<genTries, genWins>>

\* extend(additional_time) called by the handle's user, outside or inside
\* the scoped block; add = 0 stands for None
CallExtend(h, add) ==
    /\ pc[h] \in {"idle", "body"}
    /\ IF token[h] = Nil
       THEN /\ KeySame
            /\ ret' = [ret EXCEPT ![h] = <<"extend", "false">>]
       ELSE IF ~RedisReady(h)
       THEN /\ KeySame
            /\ ret' = [ret EXCEPT ![h] = <<"extend", "config_error">>]
       ELSE /\ ExtendScript(token[h], add)
            /\ ret' = [ret EXCEPT ![h] =
                          <<"extend", IF ScriptMatch(token[h]) THEN "true" ELSE "false">>]
    /\ UNCHANGED <<cfg, pc, scope, token, acquired, blocking, attempts, hb, hbTimer, orphan>>
    /\ UNCHANGED <<client, run, indexVars, cacheVars>>

\* ------------------------------------------------- is_locked and is_owned
\* is_locked(): exists(key) > 0
CallIsLocked(h) ==
    /\ pc[h] \in {"idle", "body"}
    /\ ret' = [ret EXCEPT ![h] =
                  <<"is_locked", IF ~RedisReady(h) THEN "config_error"
                                 ELSE IF lockTok # Nil THEN "true" ELSE "false">>]
    /\ UNCHANGED <<lockTok, lockTtl, cfg, pc, scope, token, acquired, blocking, attempts,
                   hb, hbTimer, orphan, genTries, genWins>>
    /\ UNCHANGED <<client, run, indexVars, cacheVars>>

\* is_owned(): False without a token, else get(key) == token
CallIsOwned(h) ==
    /\ pc[h] \in {"idle", "body"}
    /\ ret' = [ret EXCEPT ![h] =
                  <<"is_owned", IF token[h] = Nil THEN "false"
                                ELSE IF ~RedisReady(h) THEN "config_error"
                                ELSE IF lockTok = token[h] THEN "true" ELSE "false">>]
    /\ UNCHANGED <<lockTok, lockTtl, cfg, pc, scope, token, acquired, blocking, attempts,
                   hb, hbTimer, orphan, genTries, genWins>>
    /\ UNCHANGED <<client, run, indexVars, cacheVars>>

\* ------------------------------------------------ init_redis / close_redis
\* init_redis in the main context: the client is set when the ping answers
InitRedis(out) ==
    /\ pc["A"] = "idle"
    /\ client["main"] = "none"
    /\ client' = [client EXCEPT !["main"] = IF Applied(out) THEN "open" ELSE "none"]
    /\ UNCHANGED <<lockTok, lockTtl, cfg, pc, scope, token, acquired, blocking, attempts,
                   ret, hb, hbTimer, orphan, genTries, genWins>>
    /\ UNCHANGED <<run, indexVars, cacheVars>>

\* close_redis in the main context: the client is closed and the variable
\* of this context set to None
CloseRedis ==
    /\ pc["A"] = "idle"
    /\ client["main"] = "open"
    /\ client' = [client EXCEPT !["main"] = "none"]
    /\ UNCHANGED <<lockTok, lockTtl, cfg, pc, scope, token, acquired, blocking, attempts,
                   ret, hb, hbTimer, orphan, genTries, genWins>>
    /\ UNCHANGED <<run, indexVars, cacheVars>>

\* asyncio.create_task from the main context: the task in which handle B is
\* used starts with a copy of the context as it is now
CreateTask ==
    /\ pc["B"] = "idle"
    /\ token["B"] = Nil /\ ret["B"] = NoRet
    /\ client' = [client EXCEPT !["task"] = client["main"]]
    /\ UNCHANGED <<lockTok, lockTtl, cfg, pc, scope, token, acquired, blocking, attempts,
                   ret, hb, hbTimer, orphan, genTries, genWins>>
    /\ UNCHANGED <<run, indexVars, cacheVars>>

\* -------------------------------------------------------------- heartbeat
HbGoesOnAlways(success) == TRUE

\* `if not success: break`
HbGoesOn(success) == success

\* one cycle: the sleep of ttl / 3 is over, extend() runs; a false answer
\* ends the loop
HbExtend(h) ==
    /\ hb[h] = "sleep"
    /\ hbTimer[h] = 0
    /\ IF token[h] = Nil
       THEN /\ KeySame
            /\ hb' = [hb EXCEPT ![h] = "done"]
            /\ UNCHANGED hbTimer
       ELSE /\ ExtendScript(token[h], 0)
            /\ IF HbGoesOn(ScriptMatch(token[h]))
               THEN /\ hbTimer' = [hbTimer EXCEPT ![h] = HbPeriod]
                    /\ UNCHANGED hb
               ELSE /\ hb' = [hb EXCEPT ![h] = "done"]
                    /\ UNCHANGED hbTimer
    /\ UNCHANGED <<cfg, pc, scope, token, acquired, blocking, attempts, ret, orphan>>
    /\ UNCHANGED <<client, run, indexVars, cacheVars>>

\* the sleep is over and the store command of extend() raises: only
\* CancelledError is caught around the loop, the task ends with the error
HbExtendFails(h) ==
    /\ hb[h] = "sleep"
    /\ hbTimer[h] = 0
    /\ token[h] # Nil
    /\ hb' = [hb EXCEPT ![h] = "failed"]
    /\ UNCHANGED <<lockTok, lockTtl, cfg, pc, scope, token, acquired, blocking,
                   attempts, ret, hbTimer, orphan, genTries, genWins>>
    /\ UNCHANGED <<client, run, indexVars, cacheVars>>

\* a heartbeat started by an earlier acquire of the same handle: the same
\* loop, reading the handle's current token
OrphanExtend(h) ==
    /\ orphan[h]
    /\ IF token[h] = Nil
       THEN /\ KeySame
            /\ orphan' = [orphan EXCEPT ![h] = FALSE]
       ELSE /\ ExtendScript(token[h], 0)
            /\ orphan' = [orphan EXCEPT ![h] = ScriptMatch(token[h])]
    /\ UNCHANGED <<cfg, pc, scope, token, acquired, blocking, attempts, ret, hb, hbTimer>>
    /\ UNCHANGED <<client, run, indexVars, cacheVars>>

\* CancelledError is delivered at the sleep and swallowed: the task ends
HbStop(h) ==
    /\ hb[h] = "stopping"
    /\ hb' = [hb EXCEPT ![h] = "done"]
    /\ hbTimer' = [hbTimer EXCEPT ![h] = 0]
    /\ UNCHANGED <<lockTok, lockTtl, cfg, pc, scope, token, acquired, blocking,
                   attempts, ret, orphan, genTries, genWins>>
    /\ UNCHANGED <<client, run, indexVars, cacheVars>>

\* ------------------------------------------------------------ scoped mode
EnterBlockingAlways(h) == TRUE

\* blocking = not self.skip_if_locked
EnterBlocking(h) == ~cfg[h].skip

\* __aenter__: acquire(blocking = not skip_if_locked)
Enter(h) ==
    /\ pc[h] = "idle"
    /\ scope[h] = "out"
    /\ token' = [token EXCEPT ![h] = FreshToken(h)]
    /\ IF RedisReady(h)
       THEN /\ scope' = [scope EXCEPT ![h] = "entering"]
            /\ attempts' = [attempts EXCEPT ![h] = 0]
            /\ blocking' = [blocking EXCEPT ![h] = EnterBlocking(h)]
            /\ pc' = [pc EXCEPT ![h] = "acq_set"]
            /\ ret' = [ret EXCEPT ![h] = NoRet]
       ELSE \* acquire raises out of __aenter__
            /\ ret' = [ret EXCEPT ![h] = <<"enter", "config_error">>]
            /\ UNCHANGED <<scope, attempts, blocking, pc>>
    /\ UNCHANGED <<lockTok, lockTtl, cfg, acquired, hb, hbTimer, orphan, genTries, genWins>>
    /\ UNCHANGED <<client, run, indexVars, cacheVars>>

ExitReleasesAlways(h) == TRUE

\* `if self._acquired:` of __aexit__
ExitReleases(h) == acquired[h]

\* __aexit__, on every way out of the block (normal completion, an exception
\* in the body, `continue`): release() only if _acquired
Exit(h) ==
    /\ pc[h] = "body"
    /\ IF ExitReleases(h)
       THEN ReleaseBegin(h, "exiting")
       ELSE /\ pc' = [pc EXCEPT ![h] = "idle"]
            /\ scope' = [scope EXCEPT ![h] = "out"]
            /\ UNCHANGED <<lockTok, lockTtl, token, acquired, ret, hb, genTries, genWins>>
    /\ UNCHANGED <<cfg, blocking, attempts, hbTimer, orphan>>
    /\ UNCHANGED <<client, run, indexVars, cacheVars>>

\* ------------------------------------------------------------ environment
TickNoExpiry ==
    /\ lockTtl' = IF lockTtl > 1 THEN lockTtl - 1 ELSE lockTtl
    /\ UNCHANGED <<lockTok, genTries, genWins>>
    /\ hbTimer' = [h \in Handles |-> IF hbTimer[h] > 0 THEN hbTimer[h] - 1 ELSE 0]
    /\ UNCHANGED <<cfg, pc, scope, token, acquired, blocking, attempts, ret, hb, orphan>>
    /\ UNCHANGED <<client, run, indexVars, cacheVars>>

\* one tick of time: the lock key ages and expires, sleeping heartbeats age
Tick ==
    /\ IF lockTtl = 1
       THEN KeyGone
       ELSE /\ lockTtl' = IF lockTtl > 0 THEN lockTtl - 1 ELSE 0
            /\ UNCHANGED <<lockTok, genTries, genWins>>
    /\ hbTimer' = [h \in Handles |-> IF hbTimer[h] > 0 THEN hbTimer[h] - 1 ELSE 0]
    /\ UNCHANGED <<cfg, pc, scope, token, acquired, blocking, attempts, ret, hb, orphan>>
    /\ UNCHANGED <<client, run, indexVars, cacheVars>>

\* the holder's process stops without calling release: its caller and its
\* heartbeat task are gone
Crash(h) ==
    /\ pc[h] # "crashed"
    /\ ScriptMatch(token[h])
    /\ pc' = [pc EXCEPT ![h] = "crashed"]
    /\ hb' = [hb EXCEPT ![h] = "none"]
    /\ hbTimer' = [hbTimer EXCEPT ![h] = 0]
    /\ orphan' = [orphan EXCEPT ![h] = FALSE]
    /\ UNCHANGED <<lockTok, lockTtl, cfg, scope, token, acquired, blocking, attempts, ret, genTries, genWins>>
    /\ UNCHANGED <<client, run, indexVars, cacheVars>>

\* ------------------------------------------------- autocomplete index: data
\* Strings are sequences of characters. Byte(c) is the first byte of the
\* character's UTF-8 encoding, which decides the store's bytewise order; "xff"
\* is the sentinel character U+00FF of the query's upper bound.
Byte(c) ==
    CASE c = " " -> 32
      [] c = "*" -> 42
      [] c = "A" -> 65
      [] c = "B" -> 66
      [] c = "a" -> 97
      [] c = "b" -> 98
      [] c = "xff" -> 195

RECURSIVE LexLeq(_, _)
LexLeq(s, t) ==
    IF s = <<>> THEN TRUE
    ELSE IF t = <<>> THEN FALSE
    ELSE IF Byte(Head(s)) # Byte(Head(t)) THEN Byte(Head(s)) < Byte(Head(t))
    ELSE LexLeq(Tail(s), Tail(t))

\* str.lower()
LowerChar(c) == CASE c = "A" -> "a" [] c = "B" -> "b" [] OTHER -> c

Lower(s) == [i \in 1..Len(s) |-> LowerChar(s[i])]

\* str.strip()
RECURSIVE LStrip(_)
LStrip(s) == IF s # <<>> /\ Head(s) = " " THEN LStrip(Tail(s)) ELSE s

RECURSIVE RStrip(_)
RStrip(s) ==
    IF s # <<>> /\ s[Len(s)] = " " THEN RStrip(SubSeq(s, 1, Len(s) - 1)) ELSE s

Strip(s) == RStrip(LStrip(s))

NormalizeNot(s) == s

\* suggestion.lower().strip()
Normalize(s) == Strip(Lower(s))

\* min_prefix_len
MinPrefixLen == 2

\* the keys of `entries`: f"{prefix}*{suggestion}" for every prefix of
\* length min_prefix_len .. len(suggestion) of every normalized suggestion
Entries(suggestions) ==
    UNION { { SubSeq(Normalize(suggestions[k]), 1, i) \o <<"*">> \o Normalize(suggestions[k]) :
                i \in MinPrefixLen..Len(Normalize(suggestions[k])) } :
            k \in 1..Len(suggestions) }

\* the members of a set in the store's order
RECURSIVE Sorted(_)
Sorted(S) ==
    IF S = {} THEN <<>>
    ELSE LET m == CHOOSE x \in S : \A y \in S : LexLeq(x, y)
         IN <<m>> \o Sorted(S \ {m})

\* ZRANGEBYLEX key [lo [hi LIMIT 0 num
ZRangeByLex(S, lo, hi, num) ==
    LET inRange == Sorted({m \in S : LexLeq(lo, m) /\ LexLeq(m, hi)})
    IN SubSeq(inRange, 1, Min(num, Len(inRange)))

\* limit
DefaultLimit == 10

\* the suggestion lists and queries the model draws from
NameAb == <<"a", "b">>
NameAbA == <<"a", "b", " ", "a">>
NameBa == <<"b", "a">>
NameRaw == <<" ", "A", "B", "b">>

SuggestionLists == {<<>>, <<NameAb, NameAbA>>, <<NameBa, NameRaw>>}

\* ttl=3600 of the periodic rebuild; 0 stands for None
IndexTtl == 3600
BuildTtls == {0, IndexTtl}

QueryPrefixes == {<<"A", "b", " ">>, <<"b", "a">>, <<"a">>}

\* --------------------------------------------- autocomplete index: actions
\* the call up to its first store command: temp_key, the entries dictionary
BuildStart(b, suggestions, ttl, key) ==
    /\ bpc[b] \in {"idle", "returned", "raised"}
    /\ bArg' = [bArg EXCEPT ![b] = [suggestions |-> suggestions, ttl |-> ttl]]
    /\ bKey' = [bKey EXCEPT ![b] = key]
    /\ bOld' = [bOld EXCEPT ![b] = [members |-> idx[LiveKey], ttl |-> idxTtl[LiveKey]]]
    /\ bpc' = [bpc EXCEPT ![b] = IF Entries(suggestions) # {} THEN "zadd" ELSE "rename"]
    /\ bRet' = [bRet EXCEPT ![b] = -1]
    /\ UNCHANGED <<idx, idxTtl, qRaw, qRes>>
    /\ UNCHANGED <<lockVars, cacheVars>>

\* temp_key carries the clock second of the call: a call made in a second of
\* its own finds no key of that name.
BuildCall(b, suggestions, ttl, key) ==
    /\ idx[key] = {}
    /\ BuildStart(b, suggestions, ttl, key)

\* a call made while another builder's call is running, in the same clock
\* second: int(loop.time()) gives both the same temp_key
BuildOverlap(b, suggestions, ttl) ==
    \E o \in Builders \ {b} :
        /\ bpc[o] \in {"zadd", "rename", "expire", "cleanup"}
        /\ BuildStart(b, suggestions, ttl, bKey[o])

ZaddLive(b) == LiveKey

\* the key ZADD writes to
ZaddKey(b) == bKey[b]

\* await self.client.zadd(temp_key, entries)
BuildZadd(b, out) ==
    /\ bpc[b] = "zadd"
    /\ IF Applied(out)
       THEN idx' = [idx EXCEPT ![ZaddKey(b)] = @ \cup Entries(bArg[b].suggestions)]
       ELSE UNCHANGED idx
    /\ bpc' = [bpc EXCEPT ![b] = IF out = "ok" THEN "rename" ELSE "cleanup"]
    /\ UNCHANGED <<idxTtl, bArg, bKey, bOld, bRet, qRaw, qRes>>
    /\ UNCHANGED <<lockVars, cacheVars>>

\* await self.client.rename(temp_key, index_key): an error when the source
\* key does not exist; the destination takes the source's value and TTL
BuildRename(b, out) ==
    /\ bpc[b] = "rename"
    /\ IF idx[bKey[b]] = {}
       THEN /\ UNCHANGED <<idx, idxTtl>>
            /\ bpc' = [bpc EXCEPT ![b] = "cleanup"]
       ELSE /\ IF Applied(out)
               THEN /\ idx' = [idx EXCEPT ![LiveKey] = idx[bKey[b]], ![bKey[b]] = {}]
                    /\ idxTtl' = [idxTtl EXCEPT ![LiveKey] = idxTtl[bKey[b]], ![bKey[b]] = 0]
               ELSE UNCHANGED <<idx, idxTtl>>
            /\ bpc' = [bpc EXCEPT ![b] =
                          IF out # "ok" THEN "cleanup"
                          ELSE IF bArg[b].ttl # 0 THEN "expire" ELSE "returned"]
    /\ bRet' = [bRet EXCEPT ![b] =
                    IF bpc'[b] = "returned" THEN Cardinality(Entries(bArg[b].suggestions))
                    ELSE -1]
    /\ UNCHANGED <<bArg, bKey, bOld, qRaw, qRes>>
    /\ UNCHANGED <<lockVars, cacheVars>>

\* await self.client.expire(index_key, ttl)
BuildExpire(b, out) ==
    /\ bpc[b] = "expire"
    /\ IF Applied(out) /\ idx[LiveKey] # {}
       THEN idxTtl' = [idxTtl EXCEPT ![LiveKey] = bArg[b].ttl]
       ELSE UNCHANGED idxTtl
    /\ bpc' = [bpc EXCEPT ![b] = IF out = "ok" THEN "returned" ELSE "cleanup"]
    /\ bRet' = [bRet EXCEPT ![b] =
                    IF out = "ok" THEN Cardinality(Entries(bArg[b].suggestions)) ELSE -1]
    /\ UNCHANGED <<idx, bArg, bKey, bOld, qRaw, qRes>>
    /\ UNCHANGED <<lockVars, cacheVars>>

\* except Exception: await self.client.delete(temp_key); raise e
BuildCleanup(b, out) ==
    /\ bpc[b] = "cleanup"
    /\ IF Applied(out)
       THEN /\ idx' = [idx EXCEPT ![bKey[b]] = {}]
            /\ idxTtl' = [idxTtl EXCEPT ![bKey[b]] = 0]
       ELSE UNCHANGED <<idx, idxTtl>>
    /\ bpc' = [bpc EXCEPT ![b] = "raised"]
    /\ UNCHANGED <<bArg, bKey, bOld, bRet, qRaw, qRes>>
    /\ UNCHANGED <<lockVars, cacheVars>>

\* ------------------------------------------------- autocomplete index: query
\* result.split("*", 1)[1]: what follows the first "*"
RECURSIVE AfterStar(_)
AfterStar(m) ==
    IF m = <<>> THEN <<>>
    ELSE IF Head(m) = "*" THEN Tail(m) ELSE AfterStar(Tail(m))

\* "*" in result
HasStar(m) == \E i \in 1..Len(m) : m[i] = "*"

ScanNumTenth(limit) == limit \div 10

\* num=limit * 10
ScanNum(limit) == limit * 10

CollectCapNone(limit) == limit * 100

\* `if len(full_names) >= limit * 2: break`
CollectCap(limit) == limit * 2

\* the loop over results: full_names, unique, in the order first seen
RECURSIVE Collect(_, _, _)
Collect(results, full_names, limit) ==
    IF results = <<>> THEN full_names
    ELSE IF ~HasStar(Head(results)) THEN Collect(Tail(results), full_names, limit)
    ELSE LET full_name == AfterStar(Head(results))
             added == IF \E i \in 1..Len(full_names) : full_names[i] = full_name
                      THEN full_names
                      ELSE Append(full_names, full_name)
         IN  IF Len(added) >= CollectCap(limit)
             THEN added
             ELSE Collect(Tail(results), added, limit)

\* str.split(): the maximal runs of non-whitespace characters
RECURSIVE WordsFrom(_, _)
WordsFrom(s, w) ==
    IF s = <<>> THEN (IF w = <<>> THEN <<>> ELSE <<w>>)
    ELSE IF Head(s) = " "
         THEN (IF w = <<>> THEN <<>> ELSE <<w>>) \o WordsFrom(Tail(s), <<>>)
         ELSE WordsFrom(Tail(s), Append(w, Head(s)))

Words(s) == WordsFrom(s, <<>>)

\* s[:n]
Take(s, n) == SubSeq(s, 1, Min(n, Len(s)))

\* the loop over full_names of the next-word mode: a name is kept when its
\* first words are the prefix words and its next word has not been seen
RECURSIVE NextWordLoop(_, _, _, _)
NextWordLoop(full_names, prefix_words, next_words_set, matching_names) ==
    IF full_names = <<>>
    THEN [next_words_set |-> next_words_set, matching_names |-> matching_names]
    ELSE LET name_words == Words(Head(full_names))
             n == Len(prefix_words)
         IN  IF /\ Len(name_words) > n
                /\ SubSeq(name_words, 1, n) = prefix_words
                /\ name_words[n + 1] \notin next_words_set
             THEN NextWordLoop(Tail(full_names), prefix_words,
                               next_words_set \cup {name_words[n + 1]},
                               Append(matching_names, Head(full_names)))
             ELSE NextWordLoop(Tail(full_names), prefix_words,
                               next_words_set, matching_names)

\* `if normalize: prefix = prefix.lower().strip()`
SearchPrefix(prefix, normalize) == IF normalize THEN Normalize(prefix) ELSE prefix

\* the returned dictionary; a key the dictionary does not have is <<>>
SearchResult(mode, suggestions, next_words, prefix) ==
    [mode |-> mode, suggestions |-> suggestions, next_words_only |-> next_words,
     prefix |-> prefix]

\* prefix.endswith(" ")
ModeNextWord(q) == q # <<>> /\ q[Len(q)] = " "

\* what follows the scan: the mode and the result of a query for q
SearchAnswer(q, full_names, limit) ==
    IF full_names = <<>> THEN SearchResult("full", <<>>, <<>>, q)
    ELSE IF ModeNextWord(q)
         THEN LET prefix_clean == RStrip(q)
                  loop == NextWordLoop(full_names, Words(prefix_clean), {}, <<>>)
              IN  SearchResult("next_word",
                               Take(loop.matching_names, limit),
                               Take(Sorted(loop.next_words_set), limit),
                               prefix_clean)
         ELSE SearchResult("full", Take(full_names, limit), <<>>, q)

NoQuery ==
    [prefix |-> <<>>, limit |-> 0, normalize |-> TRUE, full_names |-> <<>>,
     result |-> SearchResult("none", <<>>, <<>>, <<>>)]

\* search_with_word_completion(index_key, prefix, limit, normalize): a prefix
\* shorter than 2 after normalization returns before the store is asked
Search(prefix, limit, normalize) ==
    LET q == SearchPrefix(prefix, normalize)
    IN  /\ IF Len(q) < 2
           THEN /\ UNCHANGED qRaw
                /\ qRes' = [prefix |-> prefix, limit |-> limit, normalize |-> normalize,
                            full_names |-> <<>>,
                            result |-> SearchResult("full", <<>>, <<>>, q)]
           ELSE LET results == ZRangeByLex(idx[LiveKey], q \o <<"*">>, q \o <<"xff">>,
                                           ScanNum(limit))
                    full_names == Collect(results, <<>>, limit)
                IN  /\ qRaw' = results
                    /\ qRes' = [prefix |-> prefix, limit |-> limit,
                                normalize |-> normalize, full_names |-> full_names,
                                result |-> SearchAnswer(q, full_names, limit)]
        /\ UNCHANGED <<idx, idxTtl, bpc, bArg, bKey, bOld, bRet>>
        /\ UNCHANGED <<lockVars, cacheVars>>

\* a query with the default limit and normalization that reaches the scan
QueryScan(prefix) ==
    /\ Len(Normalize(prefix)) >= 2
    /\ Search(prefix, DefaultLimit, TRUE)

IndexIdle ==
    /\ idx = [k \in IndexKeys |-> {}]
    /\ idxTtl = [k \in IndexKeys |-> 0]
    /\ bpc = [b \in Builders |-> "idle"]
    /\ bArg = [b \in Builders |-> [suggestions |-> <<>>, ttl |-> 0]]
    /\ bKey = [b \in Builders |-> "temp0"]
    /\ bOld = [b \in Builders |-> [members |-> {}, ttl |-> 0]]
    /\ bRet = [b \in Builders |-> -1]
    /\ qRaw = <<>>
    /\ qRes = NoQuery

\* no cache call in progress, the store holds no cache entry
\* mtags, ti and total are the tags, the loop position and total_count of
\* invalidate_multiple_tags; snap records the keys stored when it was called
NoArg == [op |-> "none", key |-> "k1", val |-> Nil, ttl |-> 0, compress |-> FALSE,
          tags |-> <<>>, i |-> 0, keys |-> {}, tkeys |-> {}, pat |-> <<>>,
          mtags |-> <<>>, ti |-> 0, total |-> 0, snap |-> {}]
NoCRet == [op |-> "none", raised |-> FALSE, val |-> Nil, n |-> 0]
NoSub == [channel |-> "chA", callback |-> FALSE]

CacheIdle ==
    /\ kvVal = [k \in CKeys |-> Nil]
    /\ kvTtl = [k \in CKeys |-> 0]
    /\ tagMem = [t \in Tags |-> {}]
    /\ tagTtl = [t \in Tags |-> 0]
    /\ cpc = [c \in Procs |-> "idle"]
    /\ carg = [c \in Procs |-> NoArg]
    /\ cret = [c \in Procs |-> NoCRet]
    /\ fcalls = [c \in Procs |-> 0]
    /\ lastSetex = [k \in CKeys |-> [val |-> Nil, data |-> Nil, tags |-> <<>>]]
    /\ pubsub = FALSE
    /\ channels = {}
    /\ callbacks = 0
    /\ lTask = "none"
    /\ lLive = 0
    /\ lmsg = Nil
    /\ spc = [s \in Subscribers |-> "idle"]
    /\ sarg = [s \in Subscribers |-> NoSub]
    /\ clpc = "idle"
    /\ lCancel = FALSE
    /\ cbChan = <<>>
    /\ lchan = Nil
    /\ cbRan = Nil

\* ---------------------------------------------------- lock specifications
HandlesIdle(cfgs) ==
    /\ lockTok = Nil
    /\ lockTtl = 0
    /\ cfg \in cfgs
    /\ pc = [h \in Handles |-> "idle"]
    /\ scope = [h \in Handles |-> "out"]
    /\ token = [h \in Handles |-> Nil]
    /\ acquired = [h \in Handles |-> FALSE]
    /\ blocking = [h \in Handles |-> TRUE]
    /\ attempts = [h \in Handles |-> 0]
    /\ ret = [h \in Handles |-> NoRet]
    /\ hb = [h \in Handles |-> "none"]
    /\ hbTimer = [h \in Handles |-> 0]
    /\ orphan = [h \in Handles |-> FALSE]
    /\ genTries = 0
    /\ genWins = 0
    /\ run = [h \in Handles |-> "none"]
    /\ IndexIdle
    /\ CacheIdle

\* the handles are used after init_redis, by tasks created after it
LockInit(cfgs) ==
    /\ HandlesIdle(cfgs)
    /\ client = [c \in Contexts |-> "open"]

Unbounded == [bounded |-> FALSE, n |-> 0]

\* Handles used through acquire / release / extend calls, without heartbeat
DirectInit == LockInit([Handles -> [auto : {FALSE}, skip : {FALSE}, retry : RetryOpts]])

DirectNext ==
    \/ \E h \in Handles : \E b \in BOOLEAN : CallAcquire(h, b)
    \/ \E h \in Handles : AcqSet(h)
    \/ \E h \in Handles : AcqWake(h)
    \/ \E h \in Handles : CallRelease(h)
    \/ \E h \in Handles : RelEval(h)
    \/ \E h \in Handles : \E add \in 0..Ttl : CallExtend(h, add)
    \/ \E h \in Handles : Crash(h)
    \/ Tick

SpecLock == DirectInit /\ [][DirectNext]_vars

\* The same calls on handles built with or without auto_extend
HeartbeatInit == LockInit([Handles -> [auto : BOOLEAN, skip : {FALSE}, retry : {Unbounded}]])

HeartbeatNext ==
    \/ \E h \in Handles : \E b \in BOOLEAN : CallAcquire(h, b)
    \/ \E h \in Handles : AcqSet(h)
    \/ \E h \in Handles : AcqWake(h)
    \/ \E h \in Handles : CallRelease(h)
    \/ \E h \in Handles : RelJoin(h)
    \/ \E h \in Handles : RelEval(h)
    \/ \E h \in Handles : \E add \in 0..Ttl : CallExtend(h, add)
    \/ \E h \in Handles : HbExtend(h)
    \/ \E h \in Handles : OrphanExtend(h)
    \/ \E h \in Handles : HbStop(h)
    \/ Tick

SpecHeartbeat == HeartbeatInit /\ [][HeartbeatNext]_vars

\* Handles with auto_extend whose heartbeat can meet a store error, used
\* directly and through `async with`
HbFailInit == LockInit([Handles -> [auto : {TRUE}, skip : {TRUE}, retry : {Unbounded}]])

HbFailNext ==
    \/ \E h \in Handles : CallAcquire(h, FALSE)
    \/ \E h \in Handles : Enter(h)
    \/ \E h \in Handles : AcqSet(h)
    \/ \E h \in Handles : CallRelease(h)
    \/ \E h \in Handles : Exit(h)
    \/ \E h \in Handles : RelJoin(h)
    \/ \E h \in Handles : RelJoinFailed(h)
    \/ \E h \in Handles : RelEval(h)
    \/ \E h \in Handles : HbExtend(h)
    \/ \E h \in Handles : HbExtendFails(h)
    \/ \E h \in Handles : HbStop(h)
    \/ Tick

SpecHbFail == HbFailInit /\ [][HbFailNext]_vars

\* Handles used through `async with`
ScopedInit == LockInit([Handles -> [auto : BOOLEAN, skip : BOOLEAN, retry : RetryOpts]])

ScopedNext ==
    \/ \E h \in Handles : Enter(h)
    \/ \E h \in Handles : AcqSet(h)
    \/ \E h \in Handles : AcqWake(h)
    \/ \E h \in Handles : \E add \in 0..Ttl : CallExtend(h, add)
    \/ \E h \in Handles : Exit(h)
    \/ \E h \in Handles : RelJoin(h)
    \/ \E h \in Handles : RelEval(h)
    \/ \E h \in Handles : HbExtend(h)
    \/ \E h \in Handles : HbStop(h)
    \/ Tick

SpecScoped == ScopedInit /\ [][ScopedNext]_vars

\* The periodic job drivers: every worker loops over
\*   async with DistributedLock(key, skip_if_locked=True) as lock: ...
\* with the default ttl and no auto_extend. A worker is at pc "body" while
\* it runs the refresh task (scope held) or sleeps before `continue` (scope
\* skipped), and at "idle" while it sleeps between two rounds; the sleeps
\* and the task take any time.
DriverConfig == [auto |-> FALSE, skip |-> TRUE, retry |-> Unbounded]

FleetInit == LockInit([Handles -> {DriverConfig}])

FleetNext ==
    \/ \E h \in Handles : Enter(h)
    \/ \E h \in Handles : AcqSet(h)
    \/ \E h \in Handles : Exit(h)
    \/ \E h \in Handles : RelEval(h)
    \/ Tick

SpecFleet == FleetInit /\ [][FleetNext]_vars

\* One round of a driver's `while True` loop, step by step. The refresh
\* task ends normally or raises.
TaskErrorEscapes(out) == FALSE

\* `except Exception as e: logger.error(...)` around the refresh task
TaskErrorCaught(out) == out = "fail"

\* the body of the block after `if not lock.acquired`: the refresh task
\* inside try / except Exception / else; an exception that is not caught
\* leaves the block and the loop
DriverTask(h, out) ==
    /\ pc[h] = "body"
    /\ scope[h] = "held"
    /\ ret[h][1] = "enter"
    /\ ret' = [ret EXCEPT ![h] = <<"task", IF Applied(out) THEN "ok" ELSE "raise">>]
    /\ run' = [run EXCEPT ![h] = IF Applied(out) THEN "ok"
                                 ELSE IF TaskErrorCaught(out) THEN "raise" ELSE "dead"]
    /\ UNCHANGED <<lockTok, lockTtl, cfg, pc, scope, token, acquired, blocking,
                   attempts, hb, hbTimer, orphan, genTries, genWins, client>>
    /\ UNCHANGED <<indexVars, cacheVars>>

\* the block is left: after the task, or after the sleep before `continue`
DriverExit(h) ==
    /\ scope[h] = "skipped" \/ ret[h][1] = "task"
    /\ Exit(h)

\* the sleep between two rounds is over: `async with DistributedLock(...)`
DriverEnter(h) ==
    /\ run[h] # "dead"
    /\ Enter(h)

DriverNext ==
    \/ \E h \in Handles : DriverEnter(h)
    \/ \E h \in Handles : AcqSet(h)
    \/ \E h \in Handles : \E out \in Outcomes : DriverTask(h, out)
    \/ \E h \in Handles : DriverExit(h)
    \/ \E h \in Handles : RelEval(h)
    \/ Tick

\* every sleep ends, every store command is answered and the refresh task
\* ends, one way or the other
SpecDriver ==
    /\ FleetInit
    /\ [][DriverNext]_vars
    /\ \A h \in Handles :
           /\ WF_vars(DriverEnter(h))
           /\ WF_vars(AcqSet(h))
           /\ WF_vars(\E out \in Outcomes : DriverTask(h, out))
           /\ WF_vars(DriverExit(h))
           /\ WF_vars(RelEval(h))

\* The connection life cycle: init_redis and close_redis in the main context,
\* a task created from it at any moment, and every call of both handles
ConnInit ==
    /\ HandlesIdle([Handles -> {[auto |-> FALSE, skip |-> FALSE, retry |-> Unbounded]}])
    /\ client = [c \in Contexts |-> "none"]

ConnNext ==
    \/ \E out \in Outcomes : InitRedis(out)
    \/ CloseRedis
    \/ CreateTask
    \/ \E h \in Handles : CallAcquire(h, FALSE)
    \/ \E h \in Handles : AcqSet(h)
    \/ \E h \in Handles : CallRelease(h)
    \/ \E h \in Handles : RelEval(h)
    \/ \E h \in Handles : CallExtend(h, 0)
    \/ \E h \in Handles : CallIsLocked(h)
    \/ \E h \in Handles : CallIsOwned(h)
    \/ Tick

SpecConn == ConnInit /\ [][ConnNext]_vars

\* SpecLock with time passing and every acquire loop going on
SpecCrash ==
    /\ DirectInit
    /\ [][DirectNext]_vars
    /\ WF_vars(Tick)
    /\ \A h \in Handles : WF_vars(AcqSet(h)) /\ WF_vars(AcqWake(h))

\* --------------------------------------------------- index specification
\* the lock is left alone
LockIdle == LockInit([Handles -> {DriverConfig}])

\* one builder rebuilding the index while queries run
IndexNext ==
    \/ \E s \in SuggestionLists : \E t \in BuildTtls : \E k \in TempKeys :
           BuildCall("b1", s, t, k)
    \/ \E out \in Outcomes : BuildZadd("b1", out)
    \/ \E out \in Outcomes : BuildRename("b1", out)
    \/ \E out \in Outcomes : BuildExpire("b1", out)
    \/ \E out \in Outcomes : BuildCleanup("b1", out)
    \/ \E p \in QueryPrefixes : QueryScan(p)

SpecIndex == LockIdle /\ [][IndexNext]_vars

\* two builders with different non-empty lists on the same index key; the
\* second call starts while the first is running; no store command fails
\* for a reason of its own
RebuildNext ==
    \/ \E t \in BuildTtls : BuildCall("b1", <<NameAb, NameAbA>>, t, "temp0")
    \/ \E t \in BuildTtls : BuildOverlap("b2", <<NameBa, NameRaw>>, t)
    \/ \E b \in Builders : BuildZadd(b, "ok")
    \/ \E b \in Builders : BuildRename(b, "ok")
    \/ \E b \in Builders : BuildExpire(b, "ok")
    \/ \E b \in Builders : BuildCleanup(b, "ok")
    \/ \E p \in QueryPrefixes : QueryScan(p)

SpecRebuild == LockIdle /\ [][RebuildNext]_vars

\* the suggestion lists, prefixes and limits of the query specification
NameAbB == <<"a", "b", " ", "b">>
NameAbAB == <<"a", "b", " ", "a", " ", "b">>
NameAbb == <<"a", "b", "b">>
NameAba == <<"a", "b", "a">>
QuerySuggestionLists ==
    {<<NameAbA, NameAbB, NameAbAB, NameAb>>, <<NameRaw, NameBa, NameAbB>>,
     <<NameAbb, NameAba, NameAb>>}

SearchPrefixes ==
    {<<"a", "b">>, <<"a", "b", " ">>, <<"A", "B">>, <<"a", "b", " ", "a", " ">>,
     <<"a", "b", " ", "a">>, <<"b">>}

\* the smallest limit a query is made with
MinLimit == 1
Limits == {MinLimit, DefaultLimit}

\* builds that succeed, and queries with every prefix, limit and normalization
QueryNext ==
    \/ \E s \in QuerySuggestionLists : BuildCall("b1", s, 0, "temp0")
    \/ BuildZadd("b1", "ok")
    \/ BuildRename("b1", "ok")
    \/ \E p \in SearchPrefixes, l \in Limits, n \in BOOLEAN : Search(p, l, n)

SpecQuery == LockIdle /\ [][QueryNext]_vars

Other(h) == CHOOSE o \in Handles : o # h

\* ------------------------------------------------------ object cache: codec
\* Python values handed to set() and produced by factories
PyNone == <<"None">>
PyStr == <<"str", "a">>
PyList == <<"list", "a", "b">>
PyTuple == <<"tuple", "a", "b">>
PyIntDict == <<"dict", "int", "a">>
PyStrDict == <<"dict", "str", "a">>
Values == {PyNone, PyStr, PyList, PyTuple, PyIntDict}

\* both encoders write a tuple as an array, which decodes as a list
ArrayOf(v) == IF v[1] = "tuple" THEN <<"list">> \o Tail(v) ELSE v

\* msgpack.packb(values, use_bin_type=True)
MsgpackPackb(v) == ArrayOf(v)

\* zlib.compress(packed)
ZlibCompress(packed) == <<"zlib", packed>>

\* json.dumps(values): dictionary keys are written as strings
JsonDumps(v) == <<"json", IF v = PyIntDict THEN PyStrDict ELSE ArrayOf(v)>>

\* the bytes set() stores
Serialize(v, compress) ==
    IF compress THEN ZlibCompress(MsgpackPackb(v)) ELSE JsonDumps(v)

Returned(v) == [raised |-> FALSE, val |-> v]
Raised == [raised |-> TRUE, val |-> Nil]

\* json.loads(data): bytes that are not JSON text raise (JSONDecodeError,
\* UnicodeDecodeError)
JsonLoads(data) == IF data[1] = "json" THEN Returned(data[2]) ELSE Raised

\* msgpack.unpackb(serialized_data, raw=False): a map key that is not a
\* string is refused (ValueError, strict_map_key)
MsgpackUnpackb(packed) ==
    IF packed[1] = "dict" /\ packed[2] = "int" THEN Raised ELSE Returned(packed)

\* _deserialize_data_async: zlib.error is caught there and gives None; other
\* exceptions of unpackb leave through the executor
Deserialize(data) ==
    IF data[1] # "zlib" THEN Returned(PyNone) ELSE MsgpackUnpackb(data[2])

GetCatchesNothing == FALSE

\* `except RedisError` / `except Exception` of get(): return None
GetCatches == TRUE

\* what get(key, compressed) returns when its GET ends with out
GetOutcome(k, compressed, out) ==
    LET inner == IF out = "fail" THEN Raised
                 ELSE IF kvVal[k] = Nil THEN Returned(PyNone)
                 ELSE IF compressed THEN Deserialize(kvVal[k])
                 ELSE JsonLoads(kvVal[k])
    IN  IF inner.raised /\ GetCatches THEN Returned(PyNone) ELSE inner

\* ---------------------------------------------------- object cache: actions
MaxCacheTtl == 2
CacheTtls == 1..MaxCacheTtl
TagLists == {<<"t1">>, <<"t2">>, <<"t1", "t2">>}

CRet(o, raised, v, count) == [op |-> o, raised |-> raised, val |-> v, n |-> count]

\* get(key, compressed): one GET, no write
CacheGet(c, k, compressed, out) ==
    /\ cpc[c] = "idle"
    /\ LET g == GetOutcome(k, compressed, out)
       IN  cret' = [cret EXCEPT ![c] = CRet("get", g.raised, g.val, 0)]
    /\ UNCHANGED <<kvVal, kvTtl, tagMem, tagTtl, cpc, carg, fcalls, lastSetex>>
    /\ UNCHANGED <<lockVars, indexVars, listenVars>>

DelEverything(K) ==
    /\ kvVal' = [k \in CKeys |-> Nil]
    /\ kvTtl' = [k \in CKeys |-> 0]

\* DEL of a set of cache keys: the store without them
DelKeys(K) ==
    /\ kvVal' = [k \in CKeys |-> IF k \in K THEN Nil ELSE kvVal[k]]
    /\ kvTtl' = [k \in CKeys |-> IF k \in K THEN 0 ELSE kvTtl[k]]

DelCountAsked(K) == Cardinality(K)

\* the number DEL answers: the keys of K that existed
DelCount(K) == Cardinality({k \in K : kvVal[k] # Nil})

\* delete(key): return await self.client.delete(key)
CacheDelete(c, k, out) ==
    /\ cpc[c] = "idle"
    /\ IF Applied(out)
       THEN /\ DelKeys({k})
            /\ cret' = [cret EXCEPT ![c] = CRet("delete", FALSE, Nil, DelCount({k}))]
       ELSE /\ UNCHANGED <<kvVal, kvTtl>>
            /\ cret' = [cret EXCEPT ![c] = CRet("delete", TRUE, Nil, 0)]
    /\ UNCHANGED <<tagMem, tagTtl, cpc, carg, fcalls, lastSetex>>
    /\ UNCHANGED <<lockVars, indexVars, listenVars>>

\* set(key, values, ttl, compress, tags) up to its SETEX
CallSet(c, k, v, ttl, compress, tags) ==
    /\ cpc[c] = "idle"
    /\ cpc' = [cpc EXCEPT ![c] = "setex"]
    /\ carg' = [carg EXCEPT ![c] = [NoArg EXCEPT !.op = "set", !.key = k, !.val = v,
                                                 !.ttl = ttl, !.compress = compress,
                                                 !.tags = tags]]
    /\ cret' = [cret EXCEPT ![c] = NoCRet]
    /\ UNCHANGED <<kvVal, kvTtl, tagMem, tagTtl, fcalls, lastSetex>>
    /\ UNCHANGED <<lockVars, indexVars, listenVars>>

GosReturnStored(c) ==
    GetOutcome(carg[c].key, carg[c].compress, "ok").val

\* `return data` of get_or_set: the factory's result
GosReturn(c) == carg[c].val

AfterSetSwallow(c, raised) ==
    /\ cpc' = [cpc EXCEPT ![c] = "idle"]
    /\ carg' = [carg EXCEPT ![c] = NoArg]
    /\ cret' = [cret EXCEPT ![c] = CRet(carg[c].op, FALSE, Nil, 0)]

\* set() has returned or raised; inside get_or_set a return goes on to
\* `return data`, an exception leaves get_or_set too
AfterSet(c, raised) ==
    /\ cpc' = [cpc EXCEPT ![c] = "idle"]
    /\ carg' = [carg EXCEPT ![c] = NoArg]
    /\ cret' = [cret EXCEPT ![c] =
                   IF carg[c].op = "set" THEN CRet("set", raised, Nil, 0)
                   ELSE IF raised THEN CRet("get_or_set", TRUE, Nil, 0)
                   ELSE CRet("get_or_set", FALSE, GosReturn(c), 0)]

\* await self.client.setex(key, ttl, values); `if tags:`
SetSetex(c, out) ==
    /\ cpc[c] = "setex"
    /\ LET a == carg[c]
       IN  IF Applied(out)
           THEN /\ kvVal' = [kvVal EXCEPT ![a.key] = Serialize(a.val, a.compress)]
                /\ kvTtl' = [kvTtl EXCEPT ![a.key] = a.ttl]
                /\ lastSetex' = [lastSetex EXCEPT ![a.key] =
                                     [val |-> a.val, data |-> Serialize(a.val, a.compress),
                                      tags |-> a.tags]]
                /\ IF a.tags = <<>>
                   THEN AfterSet(c, FALSE)
                   ELSE /\ cpc' = [cpc EXCEPT ![c] = "sadd"]
                        /\ carg' = [carg EXCEPT ![c].i = 1]
                        /\ UNCHANGED cret
           ELSE /\ AfterSet(c, TRUE)
                /\ UNCHANGED <<kvVal, kvTtl, lastSetex>>
    /\ UNCHANGED <<tagMem, tagTtl, fcalls>>
    /\ UNCHANGED <<lockVars, indexVars, listenVars>>

\* await self.client.sadd(tag_key, key)
SetSadd(c, out) ==
    /\ cpc[c] = "sadd"
    /\ LET a == carg[c]
           t == a.tags[a.i]
       IN  IF Applied(out)
           THEN /\ tagMem' = [tagMem EXCEPT ![t] = @ \cup {a.key}]
                /\ tagTtl' = [tagTtl EXCEPT ![t] = IF tagMem[t] = {} THEN -1 ELSE @]
                /\ cpc' = [cpc EXCEPT ![c] = "expire"]
                /\ UNCHANGED <<carg, cret>>
           ELSE /\ AfterSet(c, TRUE)
                /\ UNCHANGED <<tagMem, tagTtl>>
    /\ UNCHANGED <<kvVal, kvTtl, fcalls, lastSetex>>
    /\ UNCHANGED <<lockVars, indexVars, listenVars>>

\* the TTL handed to EXPIRE tag_key
TagKeyTtl(ttl) == ttl

\* await self.client.expire(tag_key, ttl), then the next tag or the return
SetExpire(c, out) ==
    /\ cpc[c] = "expire"
    /\ LET a == carg[c]
           t == a.tags[a.i]
       IN  IF Applied(out)
           THEN /\ tagTtl' = [tagTtl EXCEPT ![t] = IF tagMem[t] = {} THEN 0 ELSE TagKeyTtl(a.ttl)]
                /\ IF a.i < Len(a.tags)
                   THEN /\ cpc' = [cpc EXCEPT ![c] = "sadd"]
                        /\ carg' = [carg EXCEPT ![c].i = a.i + 1]
                        /\ UNCHANGED cret
                   ELSE AfterSet(c, FALSE)
           ELSE /\ AfterSet(c, TRUE)
                /\ UNCHANGED tagTtl
    /\ UNCHANGED <<kvVal, kvTtl, tagMem, fcalls, lastSetex>>
    /\ UNCHANGED <<lockVars, indexVars, listenVars>>

\* invalidate_by_tag(tag) up to its SMEMBERS
CallInvalidateByTag(c, t) ==
    /\ cpc[c] = "idle"
    /\ cpc' = [cpc EXCEPT ![c] = "smembers"]
    /\ carg' = [carg EXCEPT ![c] = [NoArg EXCEPT !.op = "invalidate_by_tag",
                                                 !.tags = <<t>>]]
    /\ cret' = [cret EXCEPT ![c] = NoCRet]
    /\ UNCHANGED <<kvVal, kvTtl, tagMem, tagTtl, fcalls, lastSetex>>
    /\ UNCHANGED <<lockVars, indexVars, listenVars>>

AccumulateLast(total_count, count) == count

\* total_count += count
Accumulate(total_count, count) == total_count + count

\* invalidate_by_tag has returned count or raised: to its caller, or into
\* the loop of invalidate_multiple_tags, which takes the next tag or
\* returns total_count; an exception leaves the loop
AfterInvalidate(c, raised, count) ==
    IF carg[c].op # "invalidate_multiple_tags"
    THEN /\ cpc' = [cpc EXCEPT ![c] = "idle"]
         /\ carg' = [carg EXCEPT ![c] = NoArg]
         /\ cret' = [cret EXCEPT ![c] = CRet("invalidate_by_tag", raised, Nil, count)]
    ELSE IF raised
    THEN /\ cpc' = [cpc EXCEPT ![c] = "idle"]
         /\ carg' = [carg EXCEPT ![c] = NoArg]
         /\ cret' = [cret EXCEPT ![c] = CRet("invalidate_multiple_tags", TRUE, Nil, 0)]
    ELSE IF carg[c].ti < Len(carg[c].mtags)
    THEN /\ cpc' = [cpc EXCEPT ![c] = "smembers"]
         /\ carg' = [carg EXCEPT ![c].tags = <<carg[c].mtags[carg[c].ti + 1]>>,
                                 ![c].ti = carg[c].ti + 1,
                                 ![c].total = Accumulate(carg[c].total, count),
                                 ![c].keys = {}, ![c].i = 0]
         /\ UNCHANGED cret
    ELSE /\ cpc' = [cpc EXCEPT ![c] = "idle"]
         /\ carg' = [carg EXCEPT ![c] = NoArg]
         /\ cret' = [cret EXCEPT ![c] =
                        CRet("invalidate_multiple_tags", FALSE, Nil,
                             Accumulate(carg[c].total, count))]

\* invalidate_multiple_tags(tags) up to the SMEMBERS of its first tag; an
\* empty list returns 0
CallInvalidateMultiple(c, tags) ==
    /\ cpc[c] = "idle"
    /\ IF tags = <<>>
       THEN /\ cret' = [cret EXCEPT ![c] = CRet("invalidate_multiple_tags", FALSE, Nil, 0)]
            /\ UNCHANGED <<cpc, carg>>
       ELSE /\ cpc' = [cpc EXCEPT ![c] = "smembers"]
            /\ carg' = [carg EXCEPT ![c] =
                           [NoArg EXCEPT !.op = "invalidate_multiple_tags",
                                         !.mtags = tags, !.tags = <<tags[1]>>, !.ti = 1,
                                         !.snap = {k \in CKeys : kvVal[k] # Nil}]]
            /\ cret' = [cret EXCEPT ![c] = NoCRet]
    /\ UNCHANGED <<kvVal, kvTtl, tagMem, tagTtl, fcalls, lastSetex>>
    /\ UNCHANGED <<lockVars, indexVars, listenVars>>

\* keys = await self.client.smembers(tag_key); count = 0; `if keys:`
InvSmembers(c, out) ==
    /\ cpc[c] = "smembers"
    /\ LET t == carg[c].tags[1]
       IN  IF Applied(out)
           THEN IF tagMem[t] = {}
                THEN AfterInvalidate(c, FALSE, 0)
                ELSE /\ cpc' = [cpc EXCEPT ![c] = "inv_del"]
                     /\ carg' = [carg EXCEPT ![c].keys = tagMem[t]]
                     /\ UNCHANGED cret
           ELSE AfterInvalidate(c, TRUE, 0)
    /\ UNCHANGED <<kvVal, kvTtl, tagMem, tagTtl, fcalls, lastSetex>>
    /\ UNCHANGED <<lockVars, indexVars, listenVars>>

\* count = await self.client.delete(*keys)
InvDel(c, out) ==
    /\ cpc[c] = "inv_del"
    /\ IF Applied(out)
       THEN /\ DelKeys(carg[c].keys)
            /\ cpc' = [cpc EXCEPT ![c] = "inv_deltag"]
            /\ carg' = [carg EXCEPT ![c].i = DelCount(carg[c].keys)]
            /\ UNCHANGED cret
       ELSE /\ AfterInvalidate(c, TRUE, 0)
            /\ UNCHANGED <<kvVal, kvTtl>>
    /\ UNCHANGED <<tagMem, tagTtl, fcalls, lastSetex>>
    /\ UNCHANGED <<lockVars, indexVars, listenVars>>

\* await self.client.delete(tag_key); return count
InvDelTag(c, out) ==
    /\ cpc[c] = "inv_deltag"
    /\ LET t == carg[c].tags[1]
       IN  IF Applied(out)
           THEN /\ tagMem' = [tagMem EXCEPT ![t] = {}]
                /\ tagTtl' = [tagTtl EXCEPT ![t] = 0]
                /\ AfterInvalidate(c, FALSE, carg[c].i)
           ELSE /\ AfterInvalidate(c, TRUE, 0)
                /\ UNCHANGED <<tagMem, tagTtl>>
    /\ UNCHANGED <<kvVal, kvTtl, fcalls, lastSetex>>
    /\ UNCHANGED <<lockVars, indexVars, listenVars>>

\* get_or_set(key, factory, ttl, compress, tags) up to the GET of its get()
CallGetOrSet(c, k, ttl, compress, tags) ==
    /\ cpc[c] = "idle"
    /\ cpc' = [cpc EXCEPT ![c] = "gos_get"]
    /\ carg' = [carg EXCEPT ![c] = [NoArg EXCEPT !.op = "get_or_set", !.key = k,
                                                 !.ttl = ttl, !.compress = compress,
                                                 !.tags = tags]]
    /\ cret' = [cret EXCEPT ![c] = NoCRet]
    /\ fcalls' = [fcalls EXCEPT ![c] = 0]
    /\ UNCHANGED <<kvVal, kvTtl, tagMem, tagTtl, lastSetex>>
    /\ UNCHANGED <<lockVars, indexVars, listenVars>>

\* `if cached is not None:`
GosHit(cached) == cached # PyNone

\* cached = await self.get(key, compressed=compress); a hit returns it
GosGet(c, out) ==
    /\ cpc[c] = "gos_get"
    /\ LET g == GetOutcome(carg[c].key, carg[c].compress, out)
       IN  IF g.raised \/ GosHit(g.val)
           THEN /\ cpc' = [cpc EXCEPT ![c] = "idle"]
                /\ carg' = [carg EXCEPT ![c] = NoArg]
                /\ cret' = [cret EXCEPT ![c] = CRet("get_or_set", g.raised, g.val, 0)]
           ELSE /\ cpc' = [cpc EXCEPT ![c] = "factory"]
                /\ UNCHANGED <<carg, cret>>
    /\ UNCHANGED <<kvVal, kvTtl, tagMem, tagTtl, fcalls, lastSetex>>
    /\ UNCHANGED <<lockVars, indexVars, listenVars>>

\* data = await factory() / factory(); then set(key, data, ...)
GosFactory(c, v) ==
    /\ cpc[c] = "factory"
    /\ fcalls' = [fcalls EXCEPT ![c] = @ + 1]
    /\ carg' = [carg EXCEPT ![c].val = v]
    /\ cpc' = [cpc EXCEPT ![c] = "setex"]
    /\ UNCHANGED <<kvVal, kvTtl, tagMem, tagTtl, cret, lastSetex>>
    /\ UNCHANGED <<lockVars, indexVars, listenVars>>

\* one second passes in the store: cache keys and tag sets age and expire
CacheTick ==
    /\ kvVal' = [k \in CKeys |-> IF kvTtl[k] = 1 THEN Nil ELSE kvVal[k]]
    /\ kvTtl' = [k \in CKeys |-> IF kvTtl[k] > 0 THEN kvTtl[k] - 1 ELSE 0]
    /\ tagMem' = [t \in Tags |-> IF tagTtl[t] = 1 THEN {} ELSE tagMem[t]]
    /\ tagTtl' = [t \in Tags |-> IF tagTtl[t] > 0 THEN tagTtl[t] - 1 ELSE tagTtl[t]]
    /\ (\E k \in CKeys : kvTtl[k] > 0) \/ (\E t \in Tags : tagTtl[t] > 0)
    /\ UNCHANGED <<cpc, carg, cret, fcalls, lastSetex>>
    /\ UNCHANGED <<lockVars, indexVars, listenVars>>

\* ------------------------------------------------ object cache: behaviours
CacheInit == LockIdle

\* one caller; values of every kind through both codecs, untagged
CodecNext ==
    \/ \E k \in CKeys, z \in BOOLEAN, out \in Outcomes : CacheGet("c1", k, z, out)
    \/ \E k \in CKeys, out \in Outcomes : CacheDelete("c1", k, out)
    \/ \E k \in CKeys, v \in Values, ttl \in CacheTtls, z \in BOOLEAN :
           CallSet("c1", k, v, ttl, z, <<>>)
    \/ \E out \in Outcomes : SetSetex("c1", out)
    \/ \E z \in BOOLEAN : CallGetOrSet("c1", "k1", MaxCacheTtl, z, <<>>)
    \/ \E out \in Outcomes : GosGet("c1", out)
    \/ \E v \in Values : GosFactory("c1", v)
    \/ CacheTick

SpecCodec == CacheInit /\ [][CodecNext]_vars

\* one caller; tagged writes of one JSON value, tag invalidation
TagsNext ==
    \/ \E k \in CKeys, out \in Outcomes : CacheGet("c1", k, FALSE, out)
    \/ \E k \in CKeys, ttl \in CacheTtls, tags \in TagLists :
           CallSet("c1", k, PyStr, ttl, FALSE, tags)
    \/ \E out \in Outcomes : SetSetex("c1", out)
    \/ \E out \in Outcomes : SetSadd("c1", out)
    \/ \E out \in Outcomes : SetExpire("c1", out)
    \/ \E t \in Tags : CallInvalidateByTag("c1", t)
    \/ \E out \in Outcomes : InvSmembers("c1", out)
    \/ \E out \in Outcomes : InvDel("c1", out)
    \/ \E out \in Outcomes : InvDelTag("c1", out)
    \/ CacheTick

SpecTags == CacheInit /\ [][TagsNext]_vars

\* one caller writing tagged entries with different TTLs and invalidating
\* tags while time passes; every store command succeeds
TagLifeNext ==
    \/ \E k \in CKeys, ttl \in CacheTtls, tags \in TagLists :
           CallSet("c1", k, PyStr, ttl, FALSE, tags)
    \/ SetSetex("c1", "ok")
    \/ SetSadd("c1", "ok")
    \/ SetExpire("c1", "ok")
    \/ \E k \in CKeys : CacheDelete("c1", k, "ok")
    \/ \E t \in Tags : CallInvalidateByTag("c1", t)
    \/ InvSmembers("c1", "ok")
    \/ InvDel("c1", "ok")
    \/ InvDelTag("c1", "ok")
    \/ CacheTick

SpecTagLife == CacheInit /\ [][TagLifeNext]_vars

\* a writer of tagged entries and a caller invalidating tags, their store
\* commands interleaved in every order; every command succeeds and no
\* entry expires
RaceNext ==
    \/ \E k \in CKeys, tags \in TagLists : CallSet("c1", k, PyStr, MaxCacheTtl, FALSE, tags)
    \/ SetSetex("c1", "ok")
    \/ SetSadd("c1", "ok")
    \/ SetExpire("c1", "ok")
    \/ \E t \in Tags : CallInvalidateByTag("c2", t)
    \/ InvSmembers("c2", "ok")
    \/ InvDel("c2", "ok")
    \/ InvDelTag("c2", "ok")

SpecRace == CacheInit /\ [][RaceNext]_vars

\* one caller writing tagged entries, deleting keys and invalidating lists
\* of tags, while a second caller reads; no entry expires
MultiTagLists == {<<>>, <<"t1">>, <<"t1", "t2">>, <<"t2", "t1">>}

MultiNext ==
    \/ \E k \in CKeys, tags \in TagLists : CallSet("c1", k, PyStr, MaxCacheTtl, FALSE, tags)
    \/ SetSetex("c1", "ok")
    \/ SetSadd("c1", "ok")
    \/ SetExpire("c1", "ok")
    \/ \E k \in CKeys : CacheDelete("c1", k, "ok")
    \/ \E tags \in MultiTagLists : CallInvalidateMultiple("c1", tags)
    \/ \E out \in Outcomes : InvSmembers("c1", out)
    \/ \E out \in Outcomes : InvDel("c1", out)
    \/ \E out \in Outcomes : InvDelTag("c1", out)
    \/ \E k \in CKeys : CacheGet("c2", k, FALSE, "ok")

SpecMulti == CacheInit /\ [][MultiNext]_vars

\* the values the two factories of the concurrent get_or_set calls produce
FlightValue(c) == IF c = "c1" THEN PyStr ELSE PyList

\* two callers in get_or_set for the same key, interleaved at every await
FlightNext ==
    \/ \E c \in Callers : CallGetOrSet(c, "k1", MaxCacheTtl, FALSE, <<>>)
    \/ \E c \in Callers : GosGet(c, "ok")
    \/ \E c \in Callers : GosFactory(c, FlightValue(c))
    \/ \E c \in Callers : SetSetex(c, "ok")
    \/ CacheTick

SpecFlight == CacheInit /\ [][FlightNext]_vars

\* ------------------------------------------------- invalidation by pattern
\* key names as the store sees them, ":" being one character of the name
KeyName(k) == IF k = "k1" THEN <<"k1">> ELSE <<"user", ":", "2">>
TagName(t) == IF t = "t1" THEN <<"t1">> ELSE <<"user", ":", "2">>

\* tag_key = f"tag:{tag}"
TagKeyName(t) == <<"tag", ":">> \o TagName(t)

\* glob match of scan_iter(match=pattern), for literal patterns and patterns
\* ending in "*"
GlobMatch(p, name) ==
    IF p # <<>> /\ p[Len(p)] = "*"
    THEN /\ Len(name) >= Len(p) - 1
         /\ SubSeq(name, 1, Len(p) - 1) = SubSeq(p, 1, Len(p) - 1)
    ELSE p = name

Patterns == {<<"user", ":", "*">>, <<"k1">>, <<"tag", ":", "*">>}

\* invalidate_by_pattern(pattern) up to its scan
CallInvalidateByPattern(c, p) ==
    /\ cpc[c] = "idle"
    /\ cpc' = [cpc EXCEPT ![c] = "scan"]
    /\ carg' = [carg EXCEPT ![c] = [NoArg EXCEPT !.op = "invalidate_by_pattern",
                                                 !.pat = p]]
    /\ cret' = [cret EXCEPT ![c] = NoCRet]
    /\ UNCHANGED <<kvVal, kvTtl, tagMem, tagTtl, fcalls, lastSetex>>
    /\ UNCHANGED <<lockVars, indexVars, listenVars>>

\* invalidate_by_pattern has returned count or raised
AfterPattern(c, raised, count) ==
    /\ cpc' = [cpc EXCEPT ![c] = "idle"]
    /\ carg' = [carg EXCEPT ![c] = NoArg]
    /\ cret' = [cret EXCEPT ![c] = CRet("invalidate_by_pattern", raised, Nil, count)]

\* async for key in self.client.scan_iter(match=pattern); `if keys:`
PatScan(c, out) ==
    /\ cpc[c] = "scan"
    /\ LET K == {k \in CKeys : kvVal[k] # Nil /\ GlobMatch(carg[c].pat, KeyName(k))}
           T == {t \in Tags : tagMem[t] # {} /\ GlobMatch(carg[c].pat, TagKeyName(t))}
       IN  IF Applied(out)
           THEN IF K = {} /\ T = {}
                THEN AfterPattern(c, FALSE, 0)
                ELSE /\ cpc' = [cpc EXCEPT ![c] = "pat_del"]
                     /\ carg' = [carg EXCEPT ![c].keys = K, ![c].tkeys = T]
                     /\ UNCHANGED cret
           ELSE AfterPattern(c, TRUE, 0)
    /\ UNCHANGED <<kvVal, kvTtl, tagMem, tagTtl, fcalls, lastSetex>>
    /\ UNCHANGED <<lockVars, indexVars, listenVars>>

\* return await self.client.delete(*keys)
PatDel(c, out) ==
    /\ cpc[c] = "pat_del"
    /\ LET T == carg[c].tkeys
       IN  IF Applied(out)
           THEN /\ DelKeys(carg[c].keys)
                /\ tagMem' = [t \in Tags |-> IF t \in T THEN {} ELSE tagMem[t]]
                /\ tagTtl' = [t \in Tags |-> IF t \in T THEN 0 ELSE tagTtl[t]]
                /\ AfterPattern(c, FALSE, DelCount(carg[c].keys)
                                          + Cardinality({t \in T : tagMem[t] # {}}))
           ELSE /\ AfterPattern(c, TRUE, 0)
                /\ UNCHANGED <<kvVal, kvTtl, tagMem, tagTtl>>
    /\ UNCHANGED <<fcalls, lastSetex>>
    /\ UNCHANGED <<lockVars, indexVars, listenVars>>

\* ------------------------------------------------------ invalidation listener
MaxCallbacks == 2

\* subscribe_invalidation(channel, callback) up to `await subscribe(channel)`
SubCall(s, ch, cb) ==
    /\ spc[s] = "idle"
    /\ clpc = "idle"
    /\ cb => callbacks < MaxCallbacks
    /\ pubsub' = TRUE
    /\ spc' = [spc EXCEPT ![s] = "subscribing"]
    /\ sarg' = [sarg EXCEPT ![s] = [channel |-> ch, callback |-> cb]]
    /\ UNCHANGED <<channels, callbacks, lTask, lLive, lmsg>>
    /\ UNCHANGED <<kvVal, kvTtl, tagMem, tagTtl, cpc, carg, cret, fcalls, lastSetex>>
    /\ UNCHANGED <<lockVars, indexVars, closeVars, scopeVars>>

ListenerNeededAlways == TRUE

\* `if self._listener_task is None or self._listener_task.done():`
ListenerNeeded == lTask \in {"none", "done", "failed"}

\* the subscribe answers; the callback is appended and the listener task is
\* created if there is none running, without a further await
SubSubscribe(s, out) ==
    /\ spc[s] = "subscribing"
    /\ spc' = [spc EXCEPT ![s] = "idle"]
    /\ IF Applied(out)
       THEN /\ channels' = channels \cup {sarg[s].channel}
            /\ callbacks' = IF sarg[s].callback THEN callbacks + 1 ELSE callbacks
            /\ cbChan' = IF sarg[s].callback THEN Append(cbChan, sarg[s].channel)
                                              ELSE cbChan
            /\ IF ListenerNeeded
               THEN lTask' = "running" /\ lLive' = lLive + 1
               ELSE UNCHANGED <<lTask, lLive>>
       ELSE UNCHANGED <<channels, callbacks, cbChan, lTask, lLive>>
    /\ sarg' = [sarg EXCEPT ![s] = NoSub]
    /\ UNCHANGED <<pubsub, lmsg, lchan, cbRan>>
    /\ UNCHANGED <<kvVal, kvTtl, tagMem, tagTtl, cpc, carg, cret, fcalls, lastSetex>>
    /\ UNCHANGED <<lockVars, indexVars, closeVars>>

\* the payloads that can arrive on a subscribed channel
MsgKey(k) == <<"key", ":">> \o KeyName(k)
MsgTag(t) == <<"tag", ":">> \o TagName(t)
MsgPattern(p) == <<"pattern", ":">> \o p
OtherMessages == {<<"key">>, <<"flush", ":", "k1">>, <<"key2", ":", "user", ":", "2">>}
Messages ==
    {MsgKey(k) : k \in CKeys} \cup {MsgTag(t) : t \in Tags}
        \cup {MsgPattern(p) : p \in Patterns} \cup OtherMessages

SplitLast(msg) ==
    IF \E i \in 1..Len(msg) : msg[i] = ":"
    THEN LET i == CHOOSE i \in 1..Len(msg) :
                      msg[i] = ":" /\ \A j \in (i+1)..Len(msg) : msg[j] # ":"
         IN  <<SubSeq(msg, 1, i - 1), SubSeq(msg, i + 1, Len(msg))>>
    ELSE <<msg>>

\* parts = message.split(":", 1)
Split1(msg) ==
    IF \E i \in 1..Len(msg) : msg[i] = ":"
    THEN LET i == CHOOSE i \in 1..Len(msg) :
                      msg[i] = ":" /\ \A j \in 1..(i-1) : msg[j] # ":"
         IN  <<SubSeq(msg, 1, i - 1), SubSeq(msg, i + 1, Len(msg))>>
    ELSE <<msg>>

\* the next message of pubsub.listen() reaches the running listener
ListenerRecv(msg) ==
    /\ lLive >= 1
    /\ ~lCancel
    /\ channels # {}
    /\ lmsg = Nil
    /\ cpc[Listener] = "idle"
    /\ lmsg' = msg
    /\ \E ch \in channels : lchan' = ch
    /\ cbRan' = Nil
    /\ cret' = [cret EXCEPT ![Listener] = NoCRet]
    /\ UNCHANGED <<pubsub, channels, callbacks, lTask, lLive, spc, sarg>>
    /\ UNCHANGED <<kvVal, kvTtl, tagMem, tagTtl, cpc, carg, fcalls, lastSetex>>
    /\ UNCHANGED <<lockVars, indexVars, closeVars, cbChan>>

\* _handle_invalidation_message has been entered and has not dispatched yet
Handling ==
    /\ lmsg # Nil
    /\ ~lCancel
    /\ cpc[Listener] = "idle"
    /\ cret[Listener].op = "none"

\* invalidation_type == "key": await self.delete(value)
HandleKey(out) ==
    /\ Handling
    /\ Len(Split1(lmsg)) = 2 /\ Split1(lmsg)[1] = <<"key">>
    /\ LET K == {k \in CKeys : KeyName(k) = Split1(lmsg)[2]}
       IN  IF Applied(out)
           THEN /\ DelKeys(K)
                /\ cret' = [cret EXCEPT ![Listener] = CRet("delete", FALSE, Nil, DelCount(K))]
           ELSE /\ UNCHANGED <<kvVal, kvTtl>>
                /\ cret' = [cret EXCEPT ![Listener] = CRet("delete", TRUE, Nil, 0)]
    /\ UNCHANGED <<tagMem, tagTtl, cpc, carg, fcalls, lastSetex>>
    /\ UNCHANGED <<lockVars, indexVars, listenVars>>

\* invalidation_type == "pattern": await self.invalidate_by_pattern(value)
HandlePattern ==
    /\ Handling
    /\ Len(Split1(lmsg)) = 2 /\ Split1(lmsg)[1] = <<"pattern">>
    /\ CallInvalidateByPattern(Listener, Split1(lmsg)[2])

\* invalidation_type == "tag": await self.invalidate_by_tag(value)
HandleTag ==
    /\ Handling
    /\ Len(Split1(lmsg)) = 2 /\ Split1(lmsg)[1] = <<"tag">>
    /\ \E t \in Tags : TagName(t) = Split1(lmsg)[2] /\ CallInvalidateByTag(Listener, t)

\* len(parts) != 2, or a type that is none of the three: nothing is done
HandleIgnore ==
    /\ Handling
    /\ \/ Len(Split1(lmsg)) # 2
       \/ Split1(lmsg)[1] \notin {<<"key">>, <<"pattern">>, <<"tag">>}
    /\ cret' = [cret EXCEPT ![Listener] = CRet("ignored", FALSE, Nil, 0)]
    /\ UNCHANGED <<kvVal, kvTtl, tagMem, tagTtl, cpc, carg, fcalls, lastSetex>>
    /\ UNCHANGED <<lockVars, indexVars, listenVars>>

\* the callbacks that were passed together with channel ch
CallbacksOfChannel(ch) == SelectSeq(cbChan, LAMBDA c : c = ch)

\* `for callback in self._invalidation_callbacks`: the callbacks invoked
\* for a message received on channel ch
CallbacksFor(ch) == cbChan

\* the handler is over: the callbacks run and the loop takes the next
\* message; an exception of the handler or of a callback (here the first
\* one invoked) ends the task
ListenerLoop(cbOut) ==
    /\ lmsg # Nil
    /\ ~lCancel
    /\ cpc[Listener] = "idle"
    /\ cret[Listener].op # "none"
    /\ cbOut = "fail" => (callbacks > 0 /\ ~cret[Listener].raised)
    /\ lmsg' = Nil
    /\ IF cret[Listener].raised \/ cbOut = "fail"
       THEN /\ lLive' = lLive - 1
            /\ lTask' = "failed"
       ELSE UNCHANGED <<lLive, lTask>>
    /\ lchan' = Nil
    /\ cbRan' = [chan |-> lchan,
                 cbs |-> IF cret[Listener].raised THEN <<>>
                         ELSE IF cbOut = "fail" THEN SubSeq(CallbacksFor(lchan), 1, 1)
                         ELSE CallbacksFor(lchan)]
    /\ UNCHANGED <<pubsub, channels, callbacks, spc, sarg>>
    /\ UNCHANGED <<kvVal, kvTtl, tagMem, tagTtl, cpc, carg, cret, fcalls, lastSetex>>
    /\ UNCHANGED <<lockVars, indexVars, closeVars, cbChan>>

\* a message whose payload is not valid UTF-8 reaches the listener:
\* message["data"].decode("utf-8") raises UnicodeDecodeError, which nothing
\* in the task catches
ListenerDecodeError ==
    /\ lLive >= 1
    /\ ~lCancel
    /\ channels # {}
    /\ lmsg = Nil
    /\ cpc[Listener] = "idle"
    /\ lLive' = lLive - 1
    /\ lTask' = "failed"
    /\ UNCHANGED <<pubsub, channels, callbacks, lmsg, spc, sarg>>
    /\ UNCHANGED <<kvVal, kvTtl, tagMem, tagTtl, cpc, carg, cret, fcalls, lastSetex>>
    /\ UNCHANGED <<lockVars, indexVars, closeVars, scopeVars>>

\* subscribe_invalidation calls overlapping each other and a listener that
\* handles messages and can end with an exception
SubscribeNext ==
    \/ \E s \in Subscribers, ch \in Channels, cb \in BOOLEAN : SubCall(s, ch, cb)
    \/ \E s \in Subscribers, out \in Outcomes : SubSubscribe(s, out)
    \/ \E msg \in {MsgKey("k1"), <<"key">>} : ListenerRecv(msg)
    \/ \E out \in Outcomes : HandleKey(out)
    \/ HandleIgnore
    \/ \E cbOut \in Outcomes : ListenerLoop(cbOut)

SpecSubscribe == CacheInit /\ [][SubscribeNext]_vars

\* subscriptions of two channels with and without callbacks, and a
\* listener handling the messages of both; nothing fails
ScopeNext ==
    \/ \E s \in Subscribers, ch \in Channels, cb \in BOOLEAN : SubCall(s, ch, cb)
    \/ \E s \in Subscribers : SubSubscribe(s, "ok")
    \/ \E k \in CKeys : ListenerRecv(MsgKey(k))
    \/ HandleKey("ok")
    \/ ListenerLoop("ok")

SpecScope == CacheInit /\ [][ScopeNext]_vars

\* the same, with payloads that cannot be decoded
SurviveNext ==
    \/ SubscribeNext
    \/ ListenerDecodeError

SpecSurvive == CacheInit /\ [][SurviveNext]_vars

\* one subscription, its listener, and a writer that fills the cache
DispatchNext ==
    \/ \E cb \in BOOLEAN : SubCall("s1", "chA", cb)
    \/ SubSubscribe("s1", "ok")
    \/ \E msg \in Messages : ListenerRecv(msg)
    \/ \E out \in Outcomes : HandleKey(out)
    \/ HandlePattern
    \/ HandleTag
    \/ HandleIgnore
    \/ \E out \in Outcomes : PatScan(Listener, out)
    \/ \E out \in Outcomes : PatDel(Listener, out)
    \/ \E out \in Outcomes : InvSmembers(Listener, out)
    \/ \E out \in Outcomes : InvDel(Listener, out)
    \/ \E out \in Outcomes : InvDelTag(Listener, out)
    \/ \E cbOut \in Outcomes : ListenerLoop(cbOut)
    \/ \E k \in CKeys, tags \in {<<"t1">>, <<"t2">>} :
           CallSet("c1", k, PyStr, MaxCacheTtl, FALSE, tags)
    \/ SetSetex("c1", "ok")
    \/ SetSadd("c1", "ok")
    \/ SetExpire("c1", "ok")

SpecDispatch == CacheInit /\ [][DispatchNext]_vars

\* ------------------------------------------------------------------ close()
\* the listener task is suspended at an await (pubsub.listen(), a store
\* command of the handler, a callback) when cancel() reaches it: the
\* CancelledError is raised there, passes through the handler and is
\* swallowed by `except asyncio.CancelledError: pass`. A delete the handler
\* had sent and not yet seen answered is executed by the store or not.
ListenerCancelled(applied) ==
    /\ lCancel
    /\ lLive >= 1
    /\ lCancel' = FALSE
    /\ lLive' = lLive - 1
    /\ lTask' = "done"
    /\ lmsg' = Nil
    /\ IF /\ applied
          /\ lmsg # Nil /\ cpc[Listener] = "idle" /\ cret[Listener].op = "none"
          /\ Len(Split1(lmsg)) = 2 /\ Split1(lmsg)[1] = <<"key">>
       THEN DelKeys({k \in CKeys : KeyName(k) = Split1(lmsg)[2]})
       ELSE UNCHANGED <<kvVal, kvTtl>>
    /\ cpc' = [cpc EXCEPT ![Listener] = "idle"]
    /\ carg' = [carg EXCEPT ![Listener] = NoArg]
    /\ UNCHANGED <<pubsub, channels, callbacks, spc, sarg, clpc>>
    /\ UNCHANGED <<tagMem, tagTtl, cret, fcalls, lastSetex>>
    /\ UNCHANGED <<lockVars, indexVars, scopeVars>>

\* `if self.pubsub:` after the listener part of close()
ClosePubsubPart == IF pubsub THEN "unsub" ELSE "cclose"

\* close() up to its first await. cancel() on a task that has ended does
\* nothing, and awaiting such a task does not suspend: it returns, or raises
\* the exception the task ended with. close() is called while no
\* subscribe_invalidation call is in progress.
CloseCall ==
    /\ clpc = "idle"
    /\ \A s \in Subscribers : spc[s] = "idle"
    /\ CASE lTask = "none" -> clpc' = ClosePubsubPart /\ UNCHANGED lCancel
         [] lTask = "running" -> clpc' = "join" /\ lCancel' = TRUE
         [] lTask = "done" -> clpc' = ClosePubsubPart /\ UNCHANGED lCancel
         [] lTask = "failed" -> clpc' = "raised" /\ UNCHANGED lCancel
    /\ UNCHANGED <<pubsub, channels, callbacks, lTask, lLive, lmsg, spc, sarg>>
    /\ UNCHANGED <<kvVal, kvTtl, tagMem, tagTtl, cpc, carg, cret, fcalls, lastSetex>>
    /\ UNCHANGED <<lockVars, indexVars, scopeVars>>

ListenerFinishedAlways == TRUE

\* `await self._listener_task` resumes when the task has ended
ListenerFinished == lTask # "running"

\* the awaited listener task has ended by the cancellation
CloseJoin ==
    /\ clpc = "join"
    /\ ListenerFinished
    /\ clpc' = ClosePubsubPart
    /\ UNCHANGED <<pubsub, channels, callbacks, lTask, lLive, lmsg, spc, sarg, lCancel>>
    /\ UNCHANGED <<kvVal, kvTtl, tagMem, tagTtl, cpc, carg, cret, fcalls, lastSetex>>
    /\ UNCHANGED <<lockVars, indexVars, scopeVars>>

\* await self.pubsub.unsubscribe(): from every channel
CloseUnsub(out) ==
    /\ clpc = "unsub"
    /\ IF Applied(out)
       THEN channels' = {} /\ clpc' = "pclose"
       ELSE UNCHANGED channels /\ clpc' = "raised"
    /\ UNCHANGED <<pubsub, callbacks, lTask, lLive, lmsg, spc, sarg, lCancel>>
    /\ UNCHANGED <<kvVal, kvTtl, tagMem, tagTtl, cpc, carg, cret, fcalls, lastSetex>>
    /\ UNCHANGED <<lockVars, indexVars, scopeVars>>

\* await self.pubsub.close(): the pubsub connection is dropped
ClosePubsub ==
    /\ clpc = "pclose"
    /\ channels' = {}
    /\ clpc' = "cclose"
    /\ UNCHANGED <<pubsub, callbacks, lTask, lLive, lmsg, spc, sarg, lCancel>>
    /\ UNCHANGED <<kvVal, kvTtl, tagMem, tagTtl, cpc, carg, cret, fcalls, lastSetex>>
    /\ UNCHANGED <<lockVars, indexVars, scopeVars>>

\* await self.client.close(), then close() returns
CloseClient ==
    /\ clpc = "cclose"
    /\ clpc' = "returned"
    /\ UNCHANGED <<pubsub, channels, callbacks, lTask, lLive, lmsg, spc, sarg, lCancel>>
    /\ UNCHANGED <<kvVal, kvTtl, tagMem, tagTtl, cpc, carg, cret, fcalls, lastSetex>>
    /\ UNCHANGED <<lockVars, indexVars, scopeVars>>

\* subscriptions, a listener that handles key messages and can end with an
\* exception, a writer, and one close() call at any moment
CloseNext ==
    \/ \E s \in Subscribers, ch \in Channels, cb \in BOOLEAN : SubCall(s, ch, cb)
    \/ \E s \in Subscribers, out \in Outcomes : SubSubscribe(s, out)
    \/ \E msg \in {MsgKey("k1"), <<"key">>} : ListenerRecv(msg)
    \/ \E out \in Outcomes : HandleKey(out)
    \/ HandleIgnore
    \/ \E cbOut \in Outcomes : ListenerLoop(cbOut)
    \/ \E applied \in BOOLEAN : ListenerCancelled(applied)
    \/ CloseCall
    \/ CloseJoin
    \/ \E out \in Outcomes : CloseUnsub(out)
    \/ ClosePubsub
    \/ CloseClient
    \/ CallSet("c1", "k1", PyStr, MaxCacheTtl, FALSE, <<>>)
    \/ SetSetex("c1", "ok")

SpecClose == CacheInit /\ [][CloseNext]_vars

\* ------------------------------------------------------------------ claims

\* C1: among the conditional sets executed on the lock key since it last
\* became free, exactly one returned true: of two acquire(blocking=False)
\* calls racing for the free key one wins and the other fails, in either
\* order of their SET commands.
C1_LockExclusivity == genTries >= 1 => genWins = 1

C1_Witness ==
    /\ genTries = 2 /\ genWins = 1
    /\ ret["A"] = <<"acquire", "true">>
    /\ ret["B"] = <<"acquire", "false">>
    /\ ~cfg["B"].retry.bounded

\* a release or extend script run by h, from a call or from a heartbeat
ScriptStep(h) ==
    \/ RelEval(h)
    \/ \E add \in 0..Ttl : CallExtend(h, add)
    \/ HbExtend(h)
    \/ OrphanExtend(h)
    \/ CallRelease(h) /\ pc'[h] = "idle"

\* C2: while the lock key holds a token that is not the handle's own (its
\* lease expired and another handle acquired the key), every release() and
\* extend() of the handle, and every extend of its heartbeat, leaves the
\* record's token and TTL unchanged and returns false without raising.
C2_OwnershipSafety ==
    [][\A h \in Handles :
          (lockTok # Nil /\ token[h] # lockTok /\ ScriptStep(h))
              => /\ lockTok' = lockTok
                 /\ lockTtl' = lockTtl
                 /\ (pc[h] \in {"idle", "rel_eval"} /\ ~HbExtend(h) /\ ~OrphanExtend(h))
                        => ret'[h] \in {<<"release", "false">>, <<"extend", "false">>}]_vars

C2_Witness ==
    /\ acquired["A"] /\ token["A"] # Nil
    /\ lockTok # Nil /\ lockTok = token["B"] /\ acquired["B"]
    /\ ret["A"] = <<"extend", "false">>

\* C3: no two workers of the fleet run the refresh task at the same time.
C3_FleetExclusion ==
    \A a, b \in Handles : (scope[a] = "held" /\ scope[b] = "held") => a = b

\* C4: whenever the compare-and-delete of release() is pending, and after
\* release() has returned until the next acquire (token None), the handle's
\* heartbeat task has been cancelled, awaited and cleared; and no extend of
\* a handle whose release() has returned changes the lock record.
C4_ReleaseOrdering ==
    [][\A h \in Handles :
          /\ (pc'[h] = "rel_eval" \/ token'[h] = Nil) => hb'[h] = "none"
          /\ (token[h] = Nil /\ (HbExtend(h) \/ OrphanExtend(h)
                                    \/ \E add \in 0..Ttl : CallExtend(h, add)))
                 => (lockTok' = lockTok /\ lockTtl' = lockTtl)]_vars

C4_Witness ==
    \E h \in Handles :
        /\ cfg[h].auto /\ pc[h] = "rel_eval" /\ hb[h] = "none"
        /\ ScriptMatch(token[h]) /\ lockTtl = Ttl

\* C5: the conditional set of a skip_if_locked handle entering `async with`
\* while the key is held is the call's first and only one: it leaves the
\* record unchanged and leads straight into the block (no sleep, no retry,
\* no exception) with an unacquired handle.
C5_SkipIfLocked ==
    [][\A h \in Handles :
          (cfg[h].skip /\ scope[h] = "entering" /\ lockTok # Nil /\ AcqSet(h))
              => /\ attempts[h] = 0
                 /\ pc'[h] = "body" /\ scope'[h] = "skipped"
                 /\ ret'[h] = <<"enter", "false">>
                 /\ ~acquired'[h]
                 /\ lockTok' = lockTok /\ lockTtl' = lockTtl]_vars

C5_Witness ==
    \E h \in Handles :
        /\ cfg[h].skip /\ scope[h] = "skipped" /\ ~acquired[h]
        /\ ret[h] = <<"enter", "false">>
        /\ lockTok # Nil /\ lockTok = token[Other(h)] /\ scope[Other(h)] = "held"

\* C6: leaving the block starts release() exactly when this handle's acquire
\* succeeded, and that release reaches the compare-and-delete; a skipped
\* handle leaves without a store command, so the record is as it was.
C6_ScopedRelease ==
    [][\A h \in Handles :
          Exit(h) =>
              /\ scope[h] \in {"held", "skipped"}
              /\ scope[h] = "held" =>
                     /\ pc'[h] \in {"rel_wait", "rel_eval"}
                     /\ token[h] # Nil
              /\ scope[h] = "skipped" =>
                     /\ pc'[h] = "idle"
                     /\ lockTok' = lockTok /\ lockTtl' = lockTtl]_vars

C6_Witness ==
    \E h \in Handles :
        /\ pc[h] = "idle" /\ ret[h] = <<"enter", "false">> /\ scope[h] = "out"
        /\ lockTok # Nil /\ lockTok = token[Other(h)] /\ scope[Other(h)] = "held"

\* C7: once a holder has stopped without releasing, a blocking acquire with
\* unbounded retries by the other handle eventually returns true (the
\* record is removed when its TTL has elapsed).
C7_CrashRecovery ==
    \A h \in Handles :
        (pc[Other(h)] = "crashed" /\ pc[h] \in {"acq_set", "acq_sleep"}
            /\ blocking[h] /\ ~cfg[h].retry.bounded)
          ~> (ret[h] = <<"acquire", "true">> /\ lockTok = token[h])

C7_Witness ==
    \E h \in Handles :
        /\ pc[Other(h)] = "crashed" /\ acquired[Other(h)]
        /\ ret[h] = <<"acquire", "true">>
        /\ lockTok = token[h]

\* the scan of a query for prefix p over a set of members
ScanOf(members, p) ==
    ZRangeByLex(members, Normalize(p) \o <<"*">>, Normalize(p) \o <<"xff">>,
                ScanNum(DefaultLimit))

\* C8: whatever the build has done so far, a query's range scan returns
\* the scan of the index as it was when the build began or the scan of the
\* full new entry set, never of a part or a mixture.
C8_RebuildAtomicity ==
    [][\A p \in QueryPrefixes :
          QueryScan(p) =>
              \/ qRaw' = ScanOf(bOld["b1"].members, p)
              \/ qRaw' = ScanOf(Entries(bArg["b1"].suggestions), p)]_vars

C8_Witness ==
    \E p \in QueryPrefixes :
        /\ bpc["b1"] = "expire"
        /\ bOld["b1"].members # {}
        /\ qRaw # <<>>
        /\ qRaw = ScanOf(Entries(bArg["b1"].suggestions), p)
        /\ qRaw # ScanOf(bOld["b1"].members, p)

\* C9: when the build has raised, the live index key holds the members and
\* the TTL it had when the call began.
C9_FailedBuildKeepsOld ==
    bpc["b1"] = "raised" =>
        /\ idx[LiveKey] = bOld["b1"].members
        /\ idxTtl[LiveKey] = bOld["b1"].ttl

\* C10: when the build has raised, its temporary key does not exist.
C10_NoLeakedTemp == bpc["b1"] = "raised" => idx[bKey["b1"]] = {}

\* the bytes under k decode under the codec selected by compressed
HoldsDecodable(k, compressed) ==
    /\ kvVal[k] # Nil
    /\ IF compressed
       THEN kvVal[k][1] = "zlib" /\ ~MsgpackUnpackb(kvVal[k][2]).raised
       ELSE kvVal[k][1] = "json"

\* C11: get() never raises and never changes the store; when its GET
\* fails, or the stored bytes do not decode under the selected codec, it
\* returns None.
C11_ReadsDegrade ==
    [][\A k \in CKeys, z \in BOOLEAN, out \in Outcomes :
          CacheGet("c1", k, z, out) =>
              /\ ~cret'["c1"].raised
              /\ storeVars' = storeVars
              /\ (out = "fail" \/ (kvVal[k] # Nil /\ ~HoldsDecodable(k, z)))
                     => cret'["c1"].val = PyNone]_vars

C11_Witness ==
    /\ cret["c1"] = CRet("get", FALSE, PyNone, 0)
    /\ \A k \in CKeys : kvVal[k] = Serialize(PyIntDict, TRUE)

\* C12: a set() whose SETEX, SADD or EXPIRE fails raises to its caller.
C12_WritesSurface ==
    [][(SetSetex("c1", "fail") \/ SetSadd("c1", "fail") \/ SetExpire("c1", "fail"))
          => (cret'["c1"].op = "set" /\ cret'["c1"].raised)]_vars

C12_Witness ==
    /\ cret["c1"] = CRet("set", TRUE, Nil, 0)
    /\ \E k \in CKeys : kvVal[k] # Nil /\ k \in tagMem["t1"]
    /\ tagTtl["t1"] = -1

C14_TagRegistration ==
    [][(cpc["c1"] \in {"setex", "expire"} /\ carg["c1"].op = "set"
           /\ cret'["c1"] = CRet("set", FALSE, Nil, 0))
          => \A j \in 1..Len(carg["c1"].tags) :
                 kvVal'[carg["c1"].key] # Nil =>
                     /\ carg["c1"].key \in tagMem'[carg["c1"].tags[j]]
                     /\ tagTtl'[carg["c1"].tags[j]] >= kvTtl'[carg["c1"].key]]_vars

\* values of the JSON data model
JsonValues == {PyNone, PyStr, PyList}

\* C15: a get of a key that holds what the last set(key, v, ttl, compress)
\* stored, with compressed = compress, returns v: for every v with
\* compression, for the JSON values without.
C15_RoundTrip ==
    [][\A k \in CKeys, z \in BOOLEAN :
          (/\ kvVal[k] # Nil /\ kvVal[k] = lastSetex[k].data
           /\ z = (kvVal[k][1] = "zlib")
           /\ z \/ lastSetex[k].val \in JsonValues
           /\ cret'["c1"].op = "get" /\ CacheGet("c1", k, z, "ok"))
            => cret'["c1"] = CRet("get", FALSE, lastSetex[k].val, 0)]_vars

\* C16: delete(key) returns 1 and removes the key when it exists, returns
\* 0 when it is absent, and leaves every other key and every tag set as it
\* was.
C16_DeleteIdempotence ==
    [][\A k \in CKeys :
          CacheDelete("c1", k, "ok") =>
              /\ cret'["c1"] = CRet("delete", FALSE, Nil, IF kvVal[k] # Nil THEN 1 ELSE 0)
              /\ kvVal'[k] = Nil
              /\ \A j \in CKeys \ {k} : kvVal'[j] = kvVal[j] /\ kvTtl'[j] = kvTtl[j]
              /\ tagMem' = tagMem /\ tagTtl' = tagTtl]_vars

C16_Witness ==
    /\ cret["c1"] = CRet("delete", FALSE, Nil, 0)
    /\ kvVal["k1"] = Nil
    /\ kvVal["k2"] # Nil /\ kvTtl["k2"] = MaxCacheTtl

\* C17: a get_or_set that finds a decodable value under the key returns it
\* without invoking the factory and without writing; otherwise it invokes
\* the factory once, stores the result with the given ttl and returns it.
C17_GetOrSet ==
    [][/\ (GosGet("c1", "ok") /\ HoldsDecodable(carg["c1"].key, carg["c1"].compress)) =>
              /\ cpc'["c1"] = "idle"
              /\ cret'["c1"] = CRet("get_or_set", FALSE,
                                    GetOutcome(carg["c1"].key, carg["c1"].compress, "ok").val, 0)
              /\ fcalls'["c1"] = 0
              /\ storeVars' = storeVars
       /\ (SetSetex("c1", "ok") /\ carg["c1"].op = "get_or_set") =>
              /\ fcalls["c1"] = 1
              /\ cret'["c1"] = CRet("get_or_set", FALSE, carg["c1"].val, 0)
              /\ kvVal'[carg["c1"].key] = Serialize(carg["c1"].val, carg["c1"].compress)
              /\ kvTtl'[carg["c1"].key] = carg["c1"].ttl]_vars

\* C18: each of the concurrent get_or_set calls that missed invokes its own
\* factory once and returns that factory's result, and the key holds what
\* the last SETEX wrote.
C18_NoSingleFlight ==
    [][\A c \in Callers :
          /\ fcalls'[c] <= 1
          /\ SetSetex(c, "ok") =>
                 /\ fcalls[c] = 1
                 /\ cret'[c] = CRet("get_or_set", FALSE, FlightValue(c), 0)
                 /\ kvVal'["k1"] = Serialize(FlightValue(c), FALSE)
          /\ kvVal'["k1"] # Nil => kvVal'["k1"] = lastSetex'["k1"].data]_vars

C18_Witness ==
    /\ cret["c1"] = CRet("get_or_set", FALSE, PyStr, 0)
    /\ kvVal["k1"] = Serialize(PyStr, FALSE) /\ kvTtl["k1"] = MaxCacheTtl
    /\ cpc["c2"] = "setex" /\ fcalls["c2"] = 1 /\ carg["c2"].val = PyList

\* C19: at most one listener task of the cache instance is running, however
\* the subscribe_invalidation calls overlap and however often a listener
\* has ended and been started again.
C19_SingleListener == lLive <= 1

C19_Witness ==
    /\ lLive = 1 /\ lTask = "running"
    /\ channels = Channels /\ callbacks = MaxCallbacks
    /\ \E s \in Subscribers : spc[s] = "subscribing"

\* C20: the handler deletes exactly key k for "key:<k>", starts
\* invalidate_by_pattern(p) for "pattern:<p>" and invalidate_by_tag(t) for
\* "tag:<t>", k, p and t being all that follows the first colon; for any
\* other message it leaves the store as it is and the listener takes the
\* next message.
C20_Dispatch ==
    [][/\ (Handling /\ (cret'[Listener] # cret[Listener] \/ cpc'[Listener] # cpc[Listener])) =>
              /\ \A k \in CKeys : lmsg = MsgKey(k) =>
                     /\ cret'[Listener].op = "delete"
                     /\ ~cret'[Listener].raised =>
                            /\ kvVal' = [kvVal EXCEPT ![k] = Nil]
                            /\ kvTtl' = [kvTtl EXCEPT ![k] = 0]
                            /\ tagMem' = tagMem /\ tagTtl' = tagTtl
              /\ \A t \in Tags : lmsg = MsgTag(t) =>
                     /\ cpc'[Listener] = "smembers"
                     /\ carg'[Listener].op = "invalidate_by_tag"
                     /\ carg'[Listener].tags = <<t>>
              /\ \A p \in Patterns : lmsg = MsgPattern(p) =>
                     /\ cpc'[Listener] = "scan"
                     /\ carg'[Listener].op = "invalidate_by_pattern"
                     /\ carg'[Listener].pat = p
              /\ lmsg \in OtherMessages =>
                     /\ cret'[Listener].op = "ignored"
                     /\ storeVars' = storeVars
       /\ (ListenerLoop("ok") /\ cret[Listener].op = "ignored") =>
              /\ lmsg' = Nil
              /\ lLive' = lLive /\ lTask' = lTask
              /\ storeVars' = storeVars]_vars

C20_Witness ==
    /\ lmsg = MsgKey("k2")
    /\ cret[Listener] = CRet("delete", FALSE, Nil, 1)
    /\ kvVal["k2"] = Nil /\ "k2" \in tagMem["t1"]
    /\ kvVal["k1"] # Nil

\* C21: close() unsubscribes, closes the connection and returns only when
\* no listener task is running and no cancellation is pending; once it has
\* returned, the listener handles no message and deletes nothing; and when
\* close() raises, it is the exception the listener task had ended with or
\* a failed unsubscribe, never the cancellation.
C21_CloseCancelsListener ==
    [][/\ clpc' \in {"unsub", "pclose", "cclose", "returned"} =>
              lLive' = 0 /\ ~lCancel' /\ lTask' # "running"
       /\ clpc = "returned" =>
              /\ lmsg' = lmsg /\ cret'[Listener] = cret[Listener]
              /\ cpc'[Listener] = cpc[Listener]
              /\ (cpc["c1"] = "idle" /\ cpc'["c1"] = "idle" => UNCHANGED storeVars)
       /\ (clpc # "raised" /\ clpc' = "raised") =>
              \/ clpc = "idle" /\ lTask = "failed"
              \/ clpc = "unsub"
      ]_vars

\* close() has returned after cancelling a listener that had deleted a key
\* for a message
C21_Witness ==
    /\ clpc = "returned"
    /\ lTask = "done"
    /\ cret[Listener].op = "delete" /\ cret[Listener].n = 1
    /\ callbacks > 0

\* s[:len(q)] == q
IsPrefix(q, s) == Len(q) <= Len(s) /\ SubSeq(s, 1, Len(q)) = q

Range(s) == {s[i] : i \in DOMAIN s}

\* the normalized suggestions of the builder's call
BuiltNames(b) ==
    {Strip(Lower(bArg[b].suggestions[k])) : k \in DOMAIN bArg[b].suggestions}

\* C22: against the index of a finished build, a query whose prefix q has
\* at least 2 characters after normalization and does not end in
\* whitespace returns mode "full"; when the suggestions having q as a
\* prefix are at most `limit`, the result lists exactly these, each once.
C22_FullMode ==
    [][(/\ qRes' # qRes
        /\ bpc["b1"] = "returned"
        /\ Len(SearchPrefix(qRes'.prefix, qRes'.normalize)) >= 2
        /\ qRes'.prefix[Len(qRes'.prefix)] # " ")
          => LET p == qRes'.prefix
                 l == qRes'.limit
                 q == IF qRes'.normalize THEN Strip(Lower(p)) ELSE p
                 matches == {x \in BuiltNames("b1") : IsPrefix(q, x)}
             IN  /\ qRes'.result.mode = "full"
                 /\ Cardinality(matches) <= l =>
                        /\ Range(qRes'.result.suggestions) = matches
                        /\ Len(qRes'.result.suggestions) = Cardinality(matches)
      ]_vars

\* a full-mode answer of two names that leaves a built name out
C22_Witness ==
    /\ bpc["b1"] = "returned"
    /\ qRes.result.mode = "full"
    /\ qRes.limit = DefaultLimit
    /\ Len(qRes.result.suggestions) = 2
    /\ Range(qRes.result.suggestions) =
           {x \in BuiltNames("b1") : IsPrefix(Strip(Lower(qRes.prefix)), x)}
    /\ \E x \in BuiltNames("b1") : x \notin Range(qRes.result.suggestions)

\* the words that follow the words of q in the built names
NextWordsOf(b, q) ==
    {Words(x)[Len(Words(q)) + 1] :
        x \in {y \in BuiltNames(b) : /\ Len(Words(y)) > Len(Words(q))
                                      /\ SubSeq(Words(y), 1, Len(Words(q))) = Words(q)}}

\* C23: with the default normalization, a query that ends in whitespace
\* after at least one word, some built name continuing its words, returns
\* mode "next_word" and a next-word set holding the next words (all of them
\* when they are at most `limit`).
C23_NextWordMode ==
    [][(/\ qRes' # qRes
        /\ qRes'.normalize
        /\ bpc["b1"] = "returned"
        /\ qRes'.prefix[Len(qRes'.prefix)] = " "
        /\ Words(qRes'.prefix) # <<>>
        /\ NextWordsOf("b1", Lower(qRes'.prefix)) # {})
          => LET next == NextWordsOf("b1", Lower(qRes'.prefix))
             IN  /\ qRes'.result.mode = "next_word"
                 /\ Cardinality(next) <= qRes'.limit =>
                        next \subseteq Range(qRes'.result.next_words_only)
      ]_vars

\* the collected names that begin with the words of q and have a further word
Candidates(names, q) ==
    {x \in Range(names) : /\ Len(Words(x)) > Len(Words(q))
                          /\ SubSeq(Words(x), 1, Len(Words(q))) = Words(q)}

\* C24: in a next_word answer, next_words_only has no duplicate, is sorted
\* and has at most `limit` elements; each element is the word after the
\* prefix words of a collected name that begins with them; and every such
\* name is among the returned suggestions when they are at most `limit`.
C24_NextWordShape ==
    [][(qRes' # qRes /\ qRes'.result.mode = "next_word")
          => LET q == SearchPrefix(qRes'.prefix, qRes'.normalize)
                 l == qRes'.limit
                 nw == qRes'.result.next_words_only
                 cands == Candidates(qRes'.full_names, q)
             IN  /\ Len(nw) <= l
                 /\ \A i \in 1..Len(nw), j \in 1..Len(nw) :
                        i < j => (nw[i] # nw[j] /\ LexLeq(nw[i], nw[j]))
                 /\ \A i \in 1..Len(nw) :
                        \E x \in cands : Words(x)[Len(Words(q)) + 1] = nw[i]
                 /\ Cardinality(cands) <= l =>
                        cands \subseteq Range(qRes'.result.suggestions)
      ]_vars

\* the position of the first result that carries name x
FirstSeen(results, x) ==
    CHOOSE r \in 1..Len(results) :
        /\ AfterStar(results[r]) = x
        /\ \A r2 \in 1..(r - 1) : AfterStar(results[r2]) # x

\* C25: the names a query collects from its scan have no duplicate, stand
\* in the order in which the scan first showed them, are at most limit * 2
\* and leave out only names first seen after the cap was reached; a
\* full-mode answer is their first min(limit, collected) names, unchanged.
C25_DedupAndCaps ==
    [][(qRes' # qRes /\ Len(SearchPrefix(qRes'.prefix, qRes'.normalize)) >= 2)
          => LET names == qRes'.full_names
                 l == qRes'.limit
                 raw == qRaw'
             IN  /\ \A i \in 1..Len(names), j \in 1..Len(names) :
                        i < j => /\ names[i] # names[j]
                                 /\ FirstSeen(raw, names[i]) < FirstSeen(raw, names[j])
                 /\ \A i \in 1..Len(names) : \E r \in 1..Len(raw) : AfterStar(raw[r]) = names[i]
                 /\ Len(names) <= l * 2
                 /\ \A r \in 1..Len(raw) :
                        AfterStar(raw[r]) \notin Range(names) =>
                            /\ Len(names) = l * 2
                            /\ r > FirstSeen(raw, names[Len(names)])
                 /\ qRes'.result.mode = "full" =>
                        qRes'.result.suggestions =
                            SubSeq(names, 1, IF l < Len(names) THEN l ELSE Len(names))
      ]_vars

\* a query with the smallest limit whose scan showed more names than it
\* collected, and which returned fewer names than it collected
C25_Witness ==
    /\ qRes.limit = MinLimit
    /\ Len(qRes.full_names) = MinLimit * 2
    /\ \E r \in 1..Len(qRaw) : AfterStar(qRaw[r]) \notin Range(qRes.full_names)
    /\ \E r \in 1..Len(qRaw) : \E r2 \in 1..Len(qRaw) :
           r # r2 /\ AfterStar(qRaw[r]) = AfterStar(qRaw[r2])
    /\ qRes.result.mode = "full"
    /\ Len(qRes.result.suggestions) = MinLimit

\* C26: when a build returns, the live index holds exactly the members
\* <p>*<n> for every normalized suggestion n and every prefix p of n of
\* length min_prefix_len .. len(n), nothing else, and the call returns the
\* number of these members.
C26_BuildContent ==
    [][(bpc["b1"] # "returned" /\ bpc'["b1"] = "returned")
          => LET members ==
                     UNION {{SubSeq(x, 1, i) \o <<"*">> \o x : i \in 2..Len(x)} :
                               x \in BuiltNames("b1")}
             IN  /\ idx'[LiveKey] = members
                 /\ bRet'["b1"] = Cardinality(members)
      ]_vars

\* a build has returned after replacing an index of other names
C26_Witness ==
    /\ bpc["b1"] = "returned"
    /\ bRet["b1"] > 0
    /\ bRet["b1"] = Cardinality(idx[LiveKey])
    /\ bOld["b1"].members # {}
    /\ bOld["b1"].members \cap idx[LiveKey] = {}

\* C27: a blocking acquire whose conditional set finds the key held goes to
\* sleep and tries again; with retry_times = N it returns false at its N-th
\* failed set and not before, without it it never returns on a failed set.
C27_BoundedRetry ==
    [][\A h \in Handles :
          (AcqSet(h) /\ blocking[h] /\ lockTok # Nil)
          => IF cfg[h].retry.bounded
             THEN /\ attempts[h] < cfg[h].retry.n
                  /\ IF attempts[h] + 1 = cfg[h].retry.n
                     THEN ret'[h] = <<"acquire", "false">> /\ pc'[h] = "idle"
                     ELSE /\ pc'[h] = "acq_sleep"
                          /\ attempts'[h] = attempts[h] + 1
                          /\ ret'[h] = NoRet
             ELSE pc'[h] = "acq_sleep" /\ ret'[h] = NoRet
      ]_vars

\* a blocking acquire with a retry budget is about to make its last set
\* on a key the other handle holds
C27_Witness ==
    \E h \in Handles :
        /\ pc[h] = "acq_set" /\ blocking[h]
        /\ cfg[h].retry.bounded
        /\ attempts[h] = cfg[h].retry.n - 1
        /\ lockTok = token[Other(h)] /\ acquired[Other(h)]

\* C28: once release() has returned true on a handle, the handle is never
\* acquired again.
C28_ReleasedIsTerminal ==
    \A h \in Handles : [](ret[h] = <<"release", "true">> => [](~acquired[h]))

\* C29: a heartbeat calls extend only when its sleep of ttl / 3 is over;
\* when extend returns true it sleeps again for ttl / 3, and when extend
\* returns false the task ends without raising and without touching the
\* lock record, the caller or the acquired flag.
C29_HeartbeatStops ==
    [][\A h \in Handles :
          HbExtend(h)
          => /\ hb[h] = "sleep" /\ hbTimer[h] = 0
             /\ IF lockTok # Nil /\ lockTok = token[h]
                THEN /\ hb'[h] = "sleep"
                     /\ hbTimer'[h] = Ttl \div 3
                     /\ lockTtl' = Ttl
                ELSE /\ hb'[h] = "done"
                     /\ acquired'[h] = acquired[h]
                     /\ lockTok' = lockTok /\ lockTtl' = lockTtl
                     /\ ret'[h] = ret[h] /\ pc'[h] = pc[h]
      ]_vars

\* a heartbeat has ended while the other handle owns the record, and the
\* acquired flag of its handle is still true
C29_Witness ==
    \E h \in Handles :
        /\ hb[h] = "done"
        /\ acquired[h]
        /\ token[h] # Nil
        /\ lockTok = token[Other(h)]
        /\ acquired[Other(h)]

\* C30: while the main context holds no client (init_redis has not
\* completed, or close_redis has run), acquire and is_locked on any handle,
\* and release, extend and is_owned on a handle with a token, raise the
\* configuration error, leave no command in flight, leave the lock record
\* alone, and the handle's acquired flag is false afterwards.
C30_UninitializedConnection ==
    [][\A h \in Handles :
          (/\ client["main"] = "none"
           /\ \/ CallAcquire(h, FALSE)
              \/ CallIsLocked(h)
              \/ token[h] # Nil /\ (CallRelease(h) \/ CallExtend(h, 0) \/ CallIsOwned(h)))
          => /\ ret'[h][2] = "config_error"
             /\ pc'[h] = "idle"
             /\ lockTok' = lockTok /\ lockTtl' = lockTtl
             /\ ~acquired'[h]
      ]_vars

\* C31: when invalidate_multiple_tags returns, its result is the number of
\* keys that were stored when it was called and are gone now, whatever
\* tags they were registered under; and on the way the total only grows by
\* the count each tag's invalidation returned.
C31_MultipleTagsSum ==
    [][/\ (cret'["c1"] # cret["c1"] /\ cret'["c1"].op = "invalidate_multiple_tags"
           /\ ~cret'["c1"].raised /\ cpc["c1"] # "idle")
          => cret'["c1"].n =
                 Cardinality({k \in carg["c1"].snap : kvVal'[k] = Nil})
       /\ (carg["c1"].op = "invalidate_multiple_tags"
           /\ carg'["c1"].op = "invalidate_multiple_tags")
          => /\ carg'["c1"].total >= carg["c1"].total
             /\ carg'["c1"].total =
                    carg["c1"].total +
                    (IF carg'["c1"].ti # carg["c1"].ti
                     THEN Cardinality({k \in carg["c1"].snap : kvVal[k] = Nil})
                          - carg["c1"].total
                     ELSE 0)
      ]_vars

\* the call is between its two tags: the first tag's set and entry are gone,
\* the second tag's entry is still stored and the reader has just read it
C31_Witness ==
    /\ carg["c1"].op = "invalidate_multiple_tags"
    /\ carg["c1"].mtags = <<"t1", "t2">>
    /\ carg["c1"].ti = 2
    /\ carg["c1"].total = 1
    /\ tagMem["t1"] = {} /\ kvVal["k1"] = Nil
    /\ tagMem["t2"] = {"k1", "k2"} /\ kvVal["k2"] # Nil
    /\ cret["c2"].op = "get" /\ cret["c2"].val = PyStr


\* C32: between calls, every stored entry whose set() named tag t is a
\* member of the member set of t.
C32_TagSetOutlivesMembers ==
    \A k \in CKeys, t \in Tags :
        (/\ cpc["c1"] = "idle"
         /\ kvVal[k] # Nil
         /\ \E j \in 1..Len(lastSetex[k].tags) : lastSetex[k].tags[j] = t)
            => k \in tagMem[t]

\* C33: once a tagged set and a tag invalidation that ran concurrently have
\* both returned, every stored entry whose set() named tag t is a member of
\* the member set of t.
C33_InvalidateRacingSet ==
    \A k \in CKeys :
        (/\ cpc["c1"] = "idle" /\ cret["c1"] = CRet("set", FALSE, Nil, 0)
         /\ cpc["c2"] = "idle" /\ cret["c2"].op = "invalidate_by_tag"
         /\ kvVal[k] # Nil)
            => \A j \in 1..Len(lastSetex[k].tags) : k \in tagMem[lastSetex[k].tags[j]]

\* C34: a release() that has ended, also on a handle whose heartbeat task
\* ended with a store error, has reset the handle's token and acquired flag.
C34_ReleaseAfterFailedHeartbeat ==
    \A h \in Handles :
        (pc[h] = "idle" /\ ret[h][1] = "release")
            => token[h] = Nil /\ ~acquired[h]

\* C35: between calls, a handle whose acquired flag is true while the lock
\* record written by it is still stored holds the token stored there.
C35_TokenFlagConsistency ==
    \A h \in Handles :
        (/\ pc[h] = "idle"
         /\ acquired[h]
         /\ lockTok # Nil /\ lockTok[1] = h)
            => token[h] = lockTok

\* C36: every worker comes to attempt the lock again and again, whether its
\* refresh task raised or not, and while a worker sleeps between two
\* rounds no lock record written by it is stored.
C36_DriverProgress ==
    \A h \in Handles :
        /\ []<>(pc[h] = "acq_set")
        /\ [](pc[h] = "idle" => (lockTok = Nil \/ lockTok[1] # h))

\* a worker whose last refresh task raised attempts the lock again, the
\* record of that run gone
C36_Witness ==
    /\ pc["A"] = "acq_set"
    /\ run["A"] = "raise"
    /\ lockTok = Nil
    /\ run["B"] = "ok"

\* C37: while nothing cancels it, a running listener task keeps running,
\* whatever the handler, the callbacks and the decoding of a payload do.
C37_ListenerSurvives ==
    [][(lTask = "running" /\ ~lCancel) => lTask' = "running"]_vars

\* C38: the callbacks invoked for a message are those passed to
\* subscribe_invalidation with the channel the message was published on.
C38_CallbackScoping ==
    [][(lmsg # Nil /\ lmsg' = Nil /\ ~lCancel)
          => cbRan'.cbs = CallbacksOfChannel(lchan)]_vars

\* C39: a build whose suggestions give no entry does not raise; it returns
\* 0 and the live index key is then empty.
C39_EmptyBuild ==
    \A b \in Builders :
        (bpc[b] # "idle" /\ Entries(bArg[b].suggestions) = {})
            => /\ bpc[b] \notin {"cleanup", "raised"}
               /\ bpc[b] = "returned" => (bRet[b] = 0 /\ idx[LiveKey] = {})

\* C40: when both of two overlapping builds have finished, the live index
\* holds the full entry set of exactly one of their lists.
C40_RebuildsSeparate ==
    (/\ bpc["b1"] \in {"returned", "raised"}
     /\ bpc["b2"] \in {"returned", "raised"})
        => \/ idx[LiveKey] = Entries(bArg["b1"].suggestions)
           \/ idx[LiveKey] = Entries(bArg["b2"].suggestions)

====
